---- MODULE Spec2Model ----
(***************************************************************************)
(* Model of the caching and batch-processing core of osp_marketing_tools:   *)
(*   cache.py  AdvancedLRUCache (LRU + TTL + tags + disk snapshot) and      *)
(*             CacheManager (registry of named caches)                      *)
(*   batch.py  BatchProcessor (bounded-concurrency asyncio pipeline) and    *)
(*             BatchAnalysisManager (active set and history)                *)
(* The specifications share one state.  SpecCache drives every operation   *)
(* of one in-memory cache, SpecLRU the single-key operations over longer    *)
(* call sequences, SpecReplace puts and gets of every value kind, SpecTags  *)
(* tagged puts and invalidate_by_tags, SpecPersist a persistent cache and   *)
(* its reconstruction from the snapshot file, SpecSnapshot the same with    *)
(* the removing operations, SpecStats the hit counters and get_stats,       *)
(* SpecRegistry the get_cache and create_cache calls of one CacheManager,   *)
(* SpecReports the same with get_all_stats, cleanup_all_expired and         *)
(* clear_all, SpecBatch one BatchProcessor through successive process_batch *)
(* runs, SpecItem the same on one-item batches of every short content,      *)
(* SpecDeadline the same under a fair event loop with scoring calls that    *)
(* may never return, SpecSummary _create_summary on result lists,           *)
(* SpecOverlap process_batch calls in flight together on one processor,     *)
(* SpecManager overlapping submit_batch calls on one BatchAnalysisManager,  *)
(* and SpecCancel and SpecHistory the same with cancel_batch and            *)
(* get_batch_history calls.                                                 *)
(***************************************************************************)
EXTENDS Integers, Sequences, FiniteSets, TLC

(***************************************************************************)
(* Bounds of the model                                                      *)
(***************************************************************************)
\* largest max_size a cache is constructed with
MaxCacheSize == 2
\* largest ttl_seconds a cache is constructed with
MaxTTL == 1
\* the wall clock runs from 0 to MaxTime
MaxTime == 2
\* number of cache API calls (constructions included) in one behaviour
MaxOps == 3
\* number of cache API calls in one behaviour of the recency specification
MaxLRUOps == 4
\* max_size of the cache, and number of calls, of the tag specification
TagCacheSize == 3
MaxTagOps == 4

Keys == {"a", "b", "c"}
\* the keys the calls of SpecPersist use
PersistKeys == {"a", "b"}
\* the cached values: the strings "" and "a" as character sequences, and the
\* tuple (1,) as its elements
Str(chars) == [kind |-> "str", items |-> chars]
Values == {Str(<< >>), Str(<<97>>), [kind |-> "tuple", items |-> <<1>>]}
\* the value the calls of SpecCache store
PlainValues == {Str(<<97>>)}
\* the values the calls of SpecPersist store
PersistValues == {Str(<<97>>), [kind |-> "tuple", items |-> <<1>>]}

\* what a cache call returns: None, a bool, an int or a cached value
NoVal == [kind |-> "None", items |-> << >>]
RetNone == [kind |-> "None", num |-> 0, val |-> NoVal]
RetBool(b) == [kind |-> "bool", num |-> IF b THEN 1 ELSE 0, val |-> NoVal]
RetInt(n) == [kind |-> "int", num |-> n, val |-> NoVal]
RetValue(v) == [kind |-> "value", num |-> 0, val |-> v]
TagSets == {{}, {"t1"}}
\* the tag lists of the tag specification, for put and invalidate_by_tags
TagChoices == SUBSET {"t1", "t2"}
None == "None"

VARIABLES
    max_size, ttl_seconds, enable_persistence,  \* AdvancedLRUCache configuration
    cache,        \* OrderedDict key -> CacheEntry, as a sequence, oldest first
    stats,        \* the _stats record
    disk,         \* content of the persistence file
    now,          \* time.time()
    ret,          \* what the last cache call returned
    last,         \* the last cache call: operation, key of a get or put, outcome
    lastUse,      \* per key, when it was last inserted or hit (call number)
    nops,         \* number of cache calls so far
    scen          \* progress through put(a); put(b); get(a); put(c)

cacheVars == <<max_size, ttl_seconds, enable_persistence, cache, stats, disk,
               now, ret, last, lastUse, nops, scen>>

(***************************************************************************)
(* CacheEntry                                                               *)
(***************************************************************************)
\* ", ".join of the decimal digits of a sequence of one-digit integers
RECURSIVE ReprItems(_)
ReprItems(items) ==
    IF items = << >> THEN << >>
    ELSE IF Len(items) = 1 THEN <<48 + Head(items)>>
    ELSE <<48 + Head(items), 44, 32>> \o ReprItems(Tail(items))

\* str(value).encode("utf-8"): a string of ASCII characters gives its bytes,
\* a tuple "(1,)" or "(1, 2)", a list "[1]"
StrUtf8(value) ==
    IF value.kind = "str" THEN value.items
    ELSE IF value.kind = "tuple"
    THEN <<40>> \o ReprItems(value.items)
               \o (IF Len(value.items) = 1 THEN <<44>> ELSE << >>) \o <<41>>
    ELSE <<91>> \o ReprItems(value.items) \o <<93>>

\* CacheEntry.__post_init__: size_bytes is computed when it was left at 0
PostInit(e) ==
    IF e.size_bytes = 0
    THEN [e EXCEPT !.size_bytes = Len(StrUtf8(e.value))]
    ELSE e

NewEntry(k, v, created, accessed, count, tags) ==
    PostInit([key |-> k, value |-> v, created_at |-> created,
              accessed_at |-> accessed, access_count |-> count,
              size_bytes |-> 0, tags |-> tags])

\* an expiry test that measures the age from the last access
is_expired_since_access(e, ttl) == now - e.accessed_at > ttl

\* CacheEntry.is_expired
is_expired(e, ttl) == now - e.created_at > ttl

\* a touch that restarts the lifetime of the entry
touch_renewing(e) ==
    [e EXCEPT !.accessed_at = now, !.access_count = @ + 1, !.created_at = now]

\* CacheEntry.touch
touch(e) == [e EXCEPT !.accessed_at = now, !.access_count = @ + 1]

(***************************************************************************)
(* OrderedDict helpers                                                      *)
(***************************************************************************)
KeysOf(c) == {c[i].key : i \in 1..Len(c)}

Has(c, k) == k \in KeysOf(c)

Lookup(c, k) == c[CHOOSE i \in 1..Len(c) : c[i].key = k]

\* del self.cache[key]
Del(c, k) == SelectSeq(c, LAMBDA e : e.key # k)

RECURSIVE SumSizes(_)
SumSizes(c) == IF c = << >> THEN 0 ELSE Head(c).size_bytes + SumSizes(Tail(c))

\* a total that is never recomputed
keep_total_size(s, c) == s

\* _update_total_size
update_total_size(s, c) == [s EXCEPT !.total_size_bytes = SumSizes(c)]

\* an eviction loop that stops one entry early
RECURSIVE EvictLeavesOne(_, _)
EvictLeavesOne(c, cap) ==
    IF Len(c) > cap + 1 THEN EvictLeavesOne(Tail(c), cap) ELSE c

\* the eviction loop of put: drop the first key while over capacity
RECURSIVE Evict(_, _)
Evict(c, cap) == IF Len(c) > cap THEN Evict(Tail(c), cap) ELSE c

\* an eviction loop that does not count
NoneCounted(c, cap) == 0

\* the number of turns of the eviction loop of put
NumEvicted(c, cap) == IF Len(c) > cap THEN Len(c) - cap ELSE 0

ZeroStats == [hits |-> 0, misses |-> 0, evictions |-> 0,
              expired_removals |-> 0, total_size_bytes |-> 0]

(***************************************************************************)
(* Persistence                                                              *)
(***************************************************************************)
Absent == [kind |-> "absent"]
Corrupt == [kind |-> "corrupt"]

\* json.dump(value, default=str): a str becomes a JSON string, a tuple or a
\* list a JSON array
JsonDump(value) ==
    IF value.kind = "str" THEN [kind |-> "string", items |-> value.items]
    ELSE [kind |-> "array", items |-> value.items]

\* json.load: a JSON string becomes a str, a JSON array a list
JsonLoad(json) ==
    IF json.kind = "string" THEN [kind |-> "str", items |-> json.items]
    ELSE [kind |-> "list", items |-> json.items]

\* an entry object of the file that has no "value" member
NoValue == [kind |-> "missing", items |-> << >>]

\* a file some other writer left at the path: valid JSON with an "entries"
\* object whose second entry has no "value" member
Malformed ==
    [kind |-> "snapshot", saved_at |-> 0, max_size |-> 2, ttl_seconds |-> 1,
     entries |->
        <<[key |-> "a", value |-> JsonDump(Str(<<97>>)), created_at |-> 0,
           accessed_at |-> 0, access_count |-> 0, tags |-> {}],
          [key |-> "b", value |-> NoValue, created_at |-> 0,
           accessed_at |-> 0, access_count |-> 0, tags |-> {}]>>]

\* an "entries" object that lists the expired entries too
SnapshotAll(c, ttl) ==
    [i \in 1..Len(c) |->
          [key |-> c[i].key, value |-> JsonDump(c[i].value),
           created_at |-> c[i].created_at, accessed_at |-> c[i].accessed_at,
           access_count |-> c[i].access_count, tags |-> c[i].tags]]

\* the "entries" object _save_to_disk writes: the non-expired entries, in
\* cache order, without key (it is the JSON member name) and size_bytes
SnapshotEntries(c, ttl) ==
    LET live == SelectSeq(c, LAMBDA e : ~is_expired(e, ttl))
    IN [i \in 1..Len(live) |->
          [key |-> live[i].key, value |-> JsonDump(live[i].value),
           created_at |-> live[i].created_at,
           accessed_at |-> live[i].accessed_at,
           access_count |-> live[i].access_count, tags |-> live[i].tags]]

Snapshot(c, ms, ttl) ==
    [kind |-> "snapshot", saved_at |-> now, max_size |-> ms,
     ttl_seconds |-> ttl, entries |-> SnapshotEntries(c, ttl)]

\* _save_to_disk: the write succeeds, or fails before the file is opened
\* (file untouched), or fails after open(..., "w") truncated it
SaveOutcomes(d, c, ms, ttl) == {Snapshot(c, ms, ttl), d, Corrupt}

\* the loop of _load_from_disk over the saved entries, in file order: the
\* entries loaded, and whether entry_data["value"] raised KeyError
RECURSIVE LoadEntries(_, _, _, _)
LoadEntries(es, acc, ms, ttl) ==
    IF es = << >> THEN [raised |-> FALSE, loaded |-> acc]
    ELSE LET d == Head(es)
         IN IF now - d.created_at < ttl
            THEN IF d.value = NoValue
                 THEN [raised |-> TRUE, loaded |-> acc]
                 ELSE LET acc2 == Append(acc,
                                     NewEntry(d.key, JsonLoad(d.value),
                                              d.created_at, d.accessed_at,
                                              d.access_count, d.tags))
                      IN IF Len(acc2) >= ms
                         THEN [raised |-> FALSE, loaded |-> acc2]
                         ELSE LoadEntries(Tail(es), acc2, ms, ttl)
            ELSE LoadEntries(Tail(es), acc, ms, ttl)

\* an exception handler that keeps what was loaded before the failure
KeepLoaded(loaded) == loaded

\* the exception handler of _load_from_disk: self.cache.clear()
ClearLoaded(loaded) == << >>

\* a load that does not stop at max_size entries
load_unbounded(d, ep, ms, ttl) ==
    IF ~ep \/ d.kind = "absent" THEN << >>
    ELSE IF d.kind = "corrupt" THEN ClearLoaded(<< >>)
    ELSE LET r == LoadEntries(d.entries, << >>, Len(d.entries) + 1, ttl)
         IN IF r.raised THEN ClearLoaded(r.loaded) ELSE r.loaded

\* _load_from_disk
load_from_disk(d, ep, ms, ttl) ==
    IF ~ep \/ d.kind = "absent" THEN << >>
    ELSE IF d.kind = "corrupt" THEN ClearLoaded(<< >>)
    ELSE LET r == LoadEntries(d.entries, << >>, ms, ttl)
         IN IF r.raised THEN ClearLoaded(r.loaded) ELSE r.loaded

(***************************************************************************)
(* AdvancedLRUCache operations                                              *)
(***************************************************************************)
NoUse == [k \in Keys |-> 0]

\* positions of the loaded entries, all before any later call
LoadedUse(c) ==
    [k \in Keys |-> IF Has(c, k)
                    THEN (CHOOSE i \in 1..Len(c) : c[i].key = k) - Len(c) - 1
                    ELSE 0]

CacheInit ==
    /\ max_size \in 1..MaxCacheSize
    /\ ttl_seconds \in 1..MaxTTL
    /\ enable_persistence \in BOOLEAN
    /\ cache = << >>
    /\ stats = ZeroStats
    /\ disk = Absent
    /\ now = 0
    /\ ret = RetNone
    /\ last = [op |-> "init", key |-> None, outcome |-> None]
    /\ lastUse = NoUse
    /\ nops = 0
    /\ scen = 0

\* AdvancedLRUCache.__init__ on the path an earlier instance wrote to
Construct(ms, ttl, ep) ==
    /\ LET c == load_from_disk(disk, ep, ms, ttl)
       IN /\ cache' = c
          /\ stats' = update_total_size(ZeroStats, c)
          /\ lastUse' = LoadedUse(c)
    /\ max_size' = ms
    /\ ttl_seconds' = ttl
    /\ enable_persistence' = ep
    /\ ret' = RetNone
    /\ last' = [op |-> "construct", key |-> None, outcome |-> None]
    /\ nops' = nops + 1
    /\ scen' = IF cache' = << >> THEN 0 ELSE -1
    /\ UNCHANGED <<disk, now>>

\* a hit that updates the entry where it stands, without move_to_end
TouchInPlace(c, k, e) == [i \in 1..Len(c) |-> IF c[i].key = k THEN e ELSE c[i]]

\* OrderedDict.move_to_end of the touched entry
MoveToEnd(c, k, e) == Append(Del(c, k), e)

\* AdvancedLRUCache.get
Get(k) ==
    /\ nops' = nops + 1
    /\ IF ~Has(cache, k)
       THEN /\ stats' = [stats EXCEPT !.misses = @ + 1]
            /\ ret' = RetNone
            /\ last' = [op |-> "get", key |-> k, outcome |-> "miss"]
            /\ UNCHANGED <<cache, lastUse>>
       ELSE LET entry == Lookup(cache, k)
            IN IF is_expired(entry, ttl_seconds)
               THEN /\ cache' = Del(cache, k)
                    /\ stats' = update_total_size(
                          [stats EXCEPT !.misses = @ + 1,
                                        !.expired_removals = @ + 1],
                          Del(cache, k))
                    /\ ret' = RetNone
                    /\ last' = [op |-> "get", key |-> k, outcome |-> "expired"]
                    /\ UNCHANGED lastUse
               ELSE /\ cache' = MoveToEnd(cache, k, touch(entry))
                    /\ stats' = [stats EXCEPT !.hits = @ + 1]
                    /\ ret' = RetValue(entry.value)
                    /\ last' = [op |-> "get", key |-> k, outcome |-> "hit"]
                    /\ lastUse' = [lastUse EXCEPT ![k] = nops + 1]
    /\ scen' = IF scen = 2 /\ k = "a" /\ last'.outcome = "hit" THEN 3 ELSE -1
    /\ UNCHANGED <<max_size, ttl_seconds, enable_persistence, disk, now>>

\* a put that updates a present key where it stands and adds the new tags to
\* the old ones
PutCacheMerged(c, k, v, tags, cap) ==
    IF Has(c, k)
    THEN [i \in 1..Len(c) |->
            IF c[i].key = k
            THEN [c[i] EXCEPT !.value = v, !.tags = @ \cup tags]
            ELSE c[i]]
    ELSE Evict(Append(c, NewEntry(k, v, now, now, 0, tags)), cap)

\* the cache after put's insertion and eviction loop
PutCache(c, k, v, tags, cap) ==
    Evict(Append(Del(c, k), NewEntry(k, v, now, now, 0, tags)), cap)

\* AdvancedLRUCache.put
Put(k, v, tags) ==
    /\ nops' = nops + 1
    /\ LET inserted == Append(Del(cache, k), NewEntry(k, v, now, now, 0, tags))
           c == PutCache(cache, k, v, tags, max_size)
       IN /\ cache' = c
          /\ stats' = update_total_size(
                [stats EXCEPT !.evictions = @ + NumEvicted(inserted, max_size)],
                c)
          /\ last' = [op |-> "put", key |-> k,
                      outcome |-> IF NumEvicted(inserted, max_size) > 0
                                  THEN "evicted" ELSE "stored"]
          /\ IF enable_persistence
             THEN disk' \in SaveOutcomes(disk, c, max_size, ttl_seconds)
             ELSE disk' = disk
    /\ lastUse' = [lastUse EXCEPT ![k] = nops + 1]
    /\ ret' = RetNone
    /\ scen' = IF \/ scen = 0 /\ k = "a"
                  \/ scen = 1 /\ k = "b"
                  \/ scen = 3 /\ k = "c"
               THEN scen + 1 ELSE -1
    /\ UNCHANGED <<max_size, ttl_seconds, enable_persistence, now>>

\* AdvancedLRUCache.invalidate
Invalidate(k) ==
    /\ nops' = nops + 1
    /\ IF Has(cache, k)
       THEN /\ cache' = Del(cache, k)
            /\ stats' = update_total_size(stats, Del(cache, k))
            /\ ret' = RetBool(TRUE)
       ELSE /\ ret' = RetBool(FALSE)
            /\ UNCHANGED <<cache, stats>>
    /\ last' = [op |-> "invalidate", key |-> None, outcome |-> None]
    /\ scen' = -1
    /\ UNCHANGED <<max_size, ttl_seconds, enable_persistence, disk, now, lastUse>>

\* a tag test that asks for all of the given tags
HasAllTags(entryTags, tags) == tags \subseteq entryTags

\* any(tag in entry.tags for tag in tags)
HasAnyTag(entryTags, tags) == \E tag \in tags : tag \in entryTags

\* AdvancedLRUCache.invalidate_by_tags
InvalidateByTags(tags) ==
    /\ nops' = nops + 1
    /\ LET kept == SelectSeq(cache, LAMBDA e : ~HasAnyTag(e.tags, tags))
       IN /\ cache' = kept
          /\ stats' = update_total_size(stats, kept)
          /\ ret' = RetInt(Len(cache) - Len(kept))
    /\ last' = [op |-> "invalidate_by_tags", key |-> None, outcome |-> None]
    /\ scen' = -1
    /\ UNCHANGED <<max_size, ttl_seconds, enable_persistence, disk, now, lastUse>>

\* the number of entries there were before the cache was cleared
LenBeforeClear(c) == Len(c)

\* len(self.cache) as clear reads it, after self.cache.clear()
LenAfterClear(c) == Len(<< >>)

\* AdvancedLRUCache.clear: the evictions counter is raised by len(self.cache)
\* read after self.cache.clear(), that is by 0
Clear ==
    /\ nops' = nops + 1
    /\ cache' = << >>
    /\ stats' = update_total_size(
          [stats EXCEPT !.evictions = @ + LenAfterClear(cache)], << >>)
    /\ ret' = RetNone
    /\ last' = [op |-> "clear", key |-> None, outcome |-> None]
    /\ scen' = -1
    /\ UNCHANGED <<max_size, ttl_seconds, enable_persistence, disk, now, lastUse>>

\* a sweep that spares the entries that were read at least once
SweepUnread(c, ttl) ==
    SelectSeq(c, LAMBDA e : ~is_expired(e, ttl) \/ e.access_count > 0)

\* what the two loops of cleanup_expired leave: the entries not expired
Sweep(c, ttl) == SelectSeq(c, LAMBDA e : ~is_expired(e, ttl))

\* AdvancedLRUCache.cleanup_expired
CleanupExpired ==
    /\ nops' = nops + 1
    /\ LET kept == Sweep(cache, ttl_seconds)
           removed == Len(cache) - Len(kept)
       IN /\ cache' = kept
          /\ stats' = update_total_size(
                [stats EXCEPT !.expired_removals = @ + removed], kept)
          /\ ret' = RetInt(removed)
    /\ last' = [op |-> "cleanup_expired", key |-> None, outcome |-> None]
    /\ scen' = -1
    /\ UNCHANGED <<max_size, ttl_seconds, enable_persistence, disk, now, lastUse>>

\* round(x, 2) of the ratio num / den, in hundredths: the nearest
\* hundredth, the even one when two are equally near
RoundHundredths(num, den) ==
    LET q == (100 * num) \div den
        r == (100 * num) % den
    IN  IF 2 * r < den THEN q
        ELSE IF 2 * r > den THEN q + 1
        ELSE IF q % 2 = 0 THEN q ELSE q + 1

\* a hit ratio cut after the second decimal
HitRatioCut(hits, misses) ==
    IF hits + misses > 0 THEN (10000 * hits) \div (hits + misses) ELSE 0

\* the "hit_ratio" member of get_stats, in hundredths of a percent
HitRatio(hits, misses) ==
    IF hits + misses > 0
    THEN RoundHundredths(hits * 100, hits + misses)
    ELSE 0

\* the dictionary get_stats returns: hit_ratio as num, and hits, misses,
\* evictions, expired_removals, current_size, max_size, total_size_bytes
RetStats(s, c, ms) ==
    [kind |-> "stats", num |-> HitRatio(s.hits, s.misses),
     val |-> [kind |-> "stats",
              items |-> <<s.hits, s.misses, s.evictions, s.expired_removals,
                          Len(c), ms, s.total_size_bytes>>]]

\* AdvancedLRUCache.get_stats
GetStats ==
    /\ ret' = RetStats(stats, cache, max_size)
    /\ last' = [op |-> "get_stats", key |-> None, outcome |-> None]
    /\ UNCHANGED <<max_size, ttl_seconds, enable_persistence, cache, stats,
                   disk, now, lastUse, nops, scen>>

\* time passes between two calls
Tick ==
    /\ now < MaxTime
    /\ now' = now + 1
    /\ UNCHANGED <<max_size, ttl_seconds, enable_persistence, cache, stats,
                   disk, ret, last, lastUse, nops, scen>>


(***************************************************************************)
(* Batch processing: bounds and inputs                                      *)
(***************************************************************************)
\* BatchProcessingConfig.max_batch_size of the processor under study
MaxBatchSize == 2
\* BatchProcessingConfig.parallel_workers of the processor under study
ParallelWorkers == 1
\* number of process_batch calls in one behaviour
MaxRuns == 2
\* item priorities: default and raised
Priorities == {0, 1}
\* longest result list, and largest framework_count, _create_summary is
\* applied to on its own
MaxResults == 3
MaxFrameworkCount == 2
\* longest content of the one-item batches of the content specification
MaxContentLen == 2
\* the characters of those contents: tab, space, "a"
ContentChars == {9, 32, 97}

\* caller-supplied item ids, unique within a batch
IdPool == <<"i1", "i2", "i3", "i4", "i5", "i6">>
\* item contents as character sequences: "a" and ""
Contents == {<<97>>, << >>}
DefaultFrameworks == <<"IDEAL", "STEPPS", "E-E-A-T", "GDocP">>
\* the frameworks of an item; the empty list stands for None as well
FrameworkChoices == {<< >>}
\* str(e) of the exception the scoring capability raises
ExcMsg == "scoring failed"

VARIABLES
    scoring_suspends,   \* does awaiting _process_item yield to the event loop
    progress_tracker,   \* BatchProcessor.progress_tracker
    cancellation_token, \* BatchProcessor._cancellation_token
    phase,              \* where process_batch is: idle, wait, collect, returned, raised
    submitted,          \* the items argument of the current call
    callback,           \* the progress_callback: given or not, and the
                        \* current_item values it raises on
    sorted,             \* sorted_items; task i works on sorted[i]
    pc,                 \* per task: created, blocked, scoring, finished, cancelled
    sem,                \* value of the asyncio.Semaphore
    taskResult,         \* per task, the BatchResult it returned
    done, pending,      \* the two sets asyncio.wait returned
    collected,          \* the done tasks the collection loop has visited
    results,            \* the results list of _process_parallel
    snapshots,          \* the tracker as seen by each callback invocation
    result,             \* what process_batch returned
    invoked,            \* per task, calls of the scoring capability
    raisedIn,           \* the tasks whose scoring call raised
    flagAtCall,         \* _cancellation_token when process_batch was called
    unbegunAtCancel,    \* tasks not yet begun when a run was cancelled
    runs                \* process_batch calls so far

batchVars == <<scoring_suspends, progress_tracker, cancellation_token, phase,
               submitted, callback, sorted, pc, sem, taskResult, done, pending,
               collected, results, snapshots, result, invoked, raisedIn,
               flagAtCall, unbegunAtCancel, runs>>

\* number of submit_batch calls in one behaviour
MaxCalls == 2
\* largest limit passed to get_batch_history
MaxLimit == 2
\* number of cache objects one CacheManager makes, the default one included
MaxInstances == 4
\* most entries one cache of a CacheManager holds
MaxHeld == 1
\* number of cache objects a CacheManager makes in the behaviours that call
\* get_all_stats, cleanup_all_expired and clear_all
MaxReported == 2
\* number of process_batch calls in flight on one processor
MaxOverlap == 2
Calls == 1..MaxCalls
BatchIds == {"b1", "b2"}
\* a content item is a string, a structured record, or something else
ItemKinds == {"str", "dict", "other"}

VARIABLES
    active_batches,   \* BatchAnalysisManager.active_batches: per batch id the
                      \* processor registered, named by the call that made
                      \* it, or 0
    batch_history,    \* BatchAnalysisManager.batch_history
    call,             \* per submit_batch call: where it is, its batch_id,
                      \* the number of its content_items, how it ended,
                      \* how many of its items were scored, and the
                      \* _cancellation_token of its processor
    mret,             \* what the last cancel_batch, get_batch_history,
                      \* get_cache or create_cache call returned
    instances,        \* the AdvancedLRUCache objects a CacheManager made, in
                      \* order of construction, each as its configuration;
                      \* an object is named by its position
    default_cache,    \* CacheManager._default_cache
    caches,           \* CacheManager.caches: per name the object, or 0
    got,              \* per name the object its first get_cache returned
    handed,           \* per name the object last handed out under the
                      \* name: by get_cache, or by create_cache of a name
                      \* other than "default"
    held,             \* per object of instances the number of entries it
                      \* holds and how many of them have expired
    report,           \* per name the entry of the mapping the last
                      \* get_all_stats or cleanup_all_expired returned: the
                      \* object it was computed from (0: no entry) and the
                      \* current_size or removal count it gives
    orun              \* per process_batch call of the overlapping runs on
                      \* one processor: where it is, the number of its
                      \* items, the progress it returned

registryVars == <<instances, default_cache, caches, got, handed, held,
                  report>>

managerVars == <<active_batches, batch_history, call, mret, registryVars,
                 orun>>

vars == <<cacheVars, batchVars, managerVars>>

(***************************************************************************)
(* BatchItem, BatchResult, BatchProgress                                    *)
(***************************************************************************)
Shapes == [content : Contents, priority : Priorities,
           frameworks : FrameworkChoices]

\* the batches a caller can submit: up to one item more than the cap
Batches ==
    UNION {{[i \in 1..n |-> [id |-> IdPool[i], content |-> f[i].content,
                             frameworks |-> f[i].frameworks,
                             priority |-> f[i].priority]] :
               f \in [1..n -> Shapes]} : n \in 0..(MaxBatchSize + 1)}

BatchResult(id, ok, data, err, ms, fc) ==
    [item_id |-> id, success |-> ok, data |-> data, error |-> err,
     processing_time_ms |-> ms, framework_count |-> fc]

\* the place of the result of a task that has not returned
NoResult == BatchResult(None, FALSE, None, None, 0, 0)

BatchProgress(n) ==
    [total_items |-> n, completed_items |-> 0, failed_items |-> 0,
     current_item |-> None]

\* progress_tracker before the first run: no BatchProgress yet
NoTracker == [total_items |-> -1, completed_items |-> 0, failed_items |-> 0,
              current_item |-> None]

\* sorted(items, key=priority, reverse=True): stable, highest priority first
RECURSIVE InsertByPriority(_, _)
InsertByPriority(x, s) ==
    IF s = << >> THEN <<x>>
    ELSE IF Head(s).priority <= x.priority THEN <<x>> \o s
    ELSE <<Head(s)>> \o InsertByPriority(x, Tail(s))

\* a dispatch in the order of submission
KeepOrder(s) == s

RECURSIVE SortByPriority(_)
SortByPriority(s) ==
    IF s = << >> THEN << >>
    ELSE InsertByPriority(Head(s), SortByPriority(Tail(s)))

\* the characters str.strip() removes, up to U+00A0: tab to carriage
\* return, the four separators, the space, next line, no-break space
Whitespace == {9, 10, 11, 12, 13, 28, 29, 30, 31, 32, 133, 160}

\* str.strip() on a character sequence
RECURSIVE LStrip(_)
LStrip(s) ==
    IF s # << >> /\ Head(s) \in Whitespace THEN LStrip(Tail(s)) ELSE s

RECURSIVE RStrip(_)
RStrip(s) ==
    IF s # << >> /\ s[Len(s)] \in Whitespace
    THEN RStrip(SubSeq(s, 1, Len(s) - 1))
    ELSE s

Strip(s) == RStrip(LStrip(s))

\* a content check that only rejects the empty string
EmptyContentExact(item) == item.content = << >>

\* the content check of _process_item
EmptyContent(item) == item.content = << >> \/ Strip(item.content) = << >>

\* item.frameworks or the four defaults
FrameworksOf(item) ==
    IF item.frameworks = << >> THEN DefaultFrameworks ELSE item.frameworks

\* a total over the framework_count of every result
RECURSIVE SumAllFrameworks(_)
SumAllFrameworks(rs) ==
    IF rs = << >> THEN 0
    ELSE Head(rs).framework_count + SumAllFrameworks(Tail(rs))

\* sum(r.framework_count for r in successful_results)
RECURSIVE SumFrameworks(_)
SumFrameworks(rs) ==
    IF rs = << >> THEN 0
    ELSE (IF Head(rs).success THEN Head(rs).framework_count ELSE 0)
         + SumFrameworks(Tail(rs))

\* _create_summary: the counts, and success_rate in hundredths of a percent
create_summary(rs) ==
    IF rs = << >>
    THEN [total_items |-> 0, successful_items |-> 0, failed_items |-> 0,
          success_rate |-> 0, total_frameworks_processed |-> 0]
    ELSE [total_items |-> Len(rs),
          successful_items |-> Len(SelectSeq(rs, LAMBDA r : r.success)),
          failed_items |-> Len(SelectSeq(rs, LAMBDA r : ~r.success)),
          success_rate |->
              RoundHundredths(
                  100 * Len(SelectSeq(rs, LAMBDA r : r.success)), Len(rs)),
          total_frameworks_processed |-> SumFrameworks(rs)]

\* the result lists _create_summary is applied to on its own: up to
\* MaxResults results, successful or failed, of any framework_count up to
\* MaxFrameworkCount
SummaryResults ==
    {BatchResult(IdPool[1], ok, None, None, 0, fc) :
        ok \in BOOLEAN, fc \in 0..MaxFrameworkCount}

ResultLists == UNION {[1..n -> SummaryResults] : n \in 0..MaxResults}


(***************************************************************************)
(* BatchProcessor                                                           *)
(*                                                                          *)
(* process_batch runs on an asyncio event loop.  It creates one task per    *)
(* item, in sorted order, and suspends in asyncio.wait.  The loop then      *)
(* gives every task its first step, in creation order, before any task is   *)
(* resumed and before the deadline timer can fire; a task that finds the    *)
(* semaphore taken waits in FIFO order.  cancel_processing only sets a      *)
(* flag and may come from anywhere, at any time.                            *)
(*                                                                          *)
(* _process_item contains no await of its own: with the shipped             *)
(* analyze_content_with_frameworks, a plain function, a task runs from the  *)
(* semaphore to its result in one step (scoring_suspends = FALSE), no task  *)
(* ever waits and no task is pending at the deadline.  A scoring            *)
(* capability that yields to the loop (scoring_suspends = TRUE) makes       *)
(* "await self._process_item(item)" a suspension point: then items are in   *)
(* flight together, wait for slots and can miss the deadline.               *)
(***************************************************************************)
Tasks == 1..Len(sorted)

NoCallback == [given |-> FALSE, raisesOn |-> {}]

NoneCreated == \A j \in Tasks : pc[j] # "created"

runLocal == <<sorted, pc, sem, taskResult, done, pending, collected, results,
              snapshots, result, invoked, raisedIn, unbegunAtCancel>>

BatchInit ==
    /\ scoring_suspends \in BOOLEAN
    /\ progress_tracker = NoTracker
    /\ cancellation_token = FALSE
    /\ phase = "idle"
    /\ submitted = << >>
    /\ callback = NoCallback
    /\ sorted = << >>
    /\ pc = << >>
    /\ sem = 0
    /\ taskResult = << >>
    /\ done = {}
    /\ pending = {}
    /\ collected = {}
    /\ results = << >>
    /\ snapshots = << >>
    /\ result = None
    /\ invoked = << >>
    /\ raisedIn = {}
    /\ flagAtCall = FALSE
    /\ unbegunAtCancel = {}
    /\ runs = 0

\* the progress callbacks a caller can pass: none, or one that raises on at
\* most one of the items
Callbacks(items) ==
    {NoCallback, [given |-> TRUE, raisesOn |-> {}]}
        \cup {[given |-> TRUE, raisesOn |-> {items[i].id}] : i \in 1..Len(items)}

\* a validation that lets one item too many through
ExceedsMaxByTwo(items) == Len(items) > MaxBatchSize + 1

\* the batch size validation of process_batch
ExceedsMax(items) == Len(items) > MaxBatchSize

\* process_batch up to its first suspension, the await of asyncio.wait:
\* validation, the empty batch, tracker and flag initialisation, sorting,
\* creation of the semaphore and of one task per item
ProcessBatch(items, cb) ==
    /\ phase = "idle"
    /\ runs < MaxRuns
    /\ runs' = runs + 1
    /\ submitted' = items
    /\ callback' = cb
    /\ flagAtCall' = cancellation_token
    /\ IF ExceedsMax(items)
       THEN /\ phase' = "raised"
            /\ UNCHANGED <<progress_tracker, cancellation_token, runLocal>>
       ELSE IF items = << >>
       THEN /\ phase' = "returned"
            /\ result' = [success |-> TRUE, results |-> << >>,
                          summary |-> create_summary(<< >>)]
            /\ UNCHANGED <<progress_tracker, cancellation_token, sorted, pc,
                           sem, taskResult, done, pending, collected, results,
                           snapshots, invoked, raisedIn, unbegunAtCancel>>
       ELSE /\ progress_tracker' = BatchProgress(Len(items))
            /\ cancellation_token' = FALSE
            /\ sorted' = SortByPriority(items)
            /\ sem' = ParallelWorkers
            /\ pc' = [i \in 1..Len(items) |-> "created"]
            /\ taskResult' = [i \in 1..Len(items) |-> NoResult]
            /\ invoked' = [i \in 1..Len(items) |-> 0]
            /\ phase' = "wait"
            /\ UNCHANGED <<done, pending, collected, results, snapshots,
                           result, raisedIn, unbegunAtCancel>>
    /\ UNCHANGED <<scoring_suspends, cacheVars, managerVars>>

\* cancel_processing
CancelProcessing ==
    /\ ~cancellation_token
    /\ cancellation_token' = TRUE
    /\ unbegunAtCancel' =
          IF phase = "wait"
          THEN {i \in Tasks : pc[i] \in {"created", "blocked"}}
          ELSE unbegunAtCancel
    /\ UNCHANGED <<scoring_suspends, progress_tracker, phase, submitted,
                   callback, sorted, pc, sem, taskResult, done, pending,
                   collected, results, snapshots, result, invoked, raisedIn,
                   flagAtCall, runs, cacheVars, managerVars>>

\* a semaphore that never makes a task wait
AlwaysFree(value) == TRUE

\* can the semaphore be acquired without waiting
SemFree(value) == value > 0

\* a _process_item that reports a raising capability as a success
SwallowedScoreResult(item, raised) ==
    BatchResult(item.id, TRUE, "analysis", None, 1, Len(FrameworksOf(item)))

\* what _process_item returns once the scoring capability returned or raised
ScoreResult(item, raised) ==
    IF raised
    THEN BatchResult(item.id, FALSE, None, ExcMsg, 1, 0)
    ELSE BatchResult(item.id, TRUE, "analysis", None, 1,
                     Len(FrameworksOf(item)))

\* a process_single_item that never looks at the cancellation flag
IgnoresCancellation(token) == FALSE

\* the cancellation check of process_single_item
IsCancelled(token) == token

\* a cancelled item reported the way a timed-out one is
CancelledAsTimeout(item) ==
    BatchResult("timeout", FALSE, None, "Processing timeout", 0, 0)

\* what process_single_item returns when it finds the flag set
Cancelled(item) ==
    BatchResult(item.id, FALSE, None, "Processing cancelled", 0, 0)

\* process_single_item from the acquired semaphore on: the cancellation
\* check, then _process_item up to the scoring call, and through it when the
\* capability does not suspend
Begin(i) ==
    LET item == sorted[i]
    IN IF IsCancelled(cancellation_token)
       THEN /\ taskResult' = [taskResult EXCEPT ![i] = Cancelled(item)]
            /\ pc' = [pc EXCEPT ![i] = "finished"]
            /\ UNCHANGED <<sem, invoked, raisedIn>>
       ELSE IF EmptyContent(item)
       THEN /\ taskResult' = [taskResult EXCEPT ![i] =
                 BatchResult(item.id, FALSE, None, "Empty or invalid content", 0, 0)]
            /\ pc' = [pc EXCEPT ![i] = "finished"]
            /\ UNCHANGED <<sem, invoked, raisedIn>>
       ELSE /\ invoked' = [invoked EXCEPT ![i] = @ + 1]
            /\ IF scoring_suspends
               THEN /\ pc' = [pc EXCEPT ![i] = "scoring"]
                    /\ sem' = sem - 1
                    /\ UNCHANGED <<taskResult, raisedIn>>
               ELSE /\ pc' = [pc EXCEPT ![i] = "finished"]
                    /\ \E raised \in BOOLEAN :
                         /\ taskResult' = [taskResult EXCEPT ![i] =
                                              ScoreResult(item, raised)]
                         /\ raisedIn' = IF raised THEN raisedIn \cup {i}
                                                  ELSE raisedIn
                    /\ UNCHANGED sem

taskFrame == <<scoring_suspends, progress_tracker, cancellation_token, phase,
               submitted, callback, sorted, done, pending, collected, results,
               snapshots, result, flagAtCall, unbegunAtCancel, runs, cacheVars, managerVars>>

\* the first step of a task, in creation order: acquire the semaphore or wait
TaskFirstStep(i) ==
    /\ phase = "wait"
    /\ pc[i] = "created"
    /\ \A j \in 1..(i - 1) : pc[j] # "created"
    /\ IF SemFree(sem)
       THEN Begin(i)
       ELSE /\ pc' = [pc EXCEPT ![i] = "blocked"]
            /\ UNCHANGED <<sem, taskResult, invoked, raisedIn>>
    /\ UNCHANGED taskFrame

\* a released slot wakes the longest-waiting task
TaskResume(i) ==
    /\ phase = "wait"
    /\ NoneCreated
    /\ pc[i] = "blocked"
    /\ \A j \in 1..(i - 1) : pc[j] # "blocked"
    /\ SemFree(sem)
    /\ Begin(i)
    /\ UNCHANGED taskFrame

\* the scoring capability of a suspended task returns or raises
ScoreEnd(i) ==
    /\ phase = "wait"
    /\ NoneCreated
    /\ pc[i] = "scoring"
    /\ \E raised \in BOOLEAN :
          /\ taskResult' = [taskResult EXCEPT ![i] =
                               ScoreResult(sorted[i], raised)]
          /\ raisedIn' = IF raised THEN raisedIn \cup {i} ELSE raisedIn
    /\ pc' = [pc EXCEPT ![i] = "finished"]
    /\ sem' = sem + 1
    /\ UNCHANGED invoked
    /\ UNCHANGED taskFrame

\* the scoring capability is a plain function and a task is inside it: the
\* event loop runs nothing else, the deadline timer included, until the
\* call returns
LoopBlocked == ~scoring_suspends /\ \E i \in Tasks : pc[i] = "scoring"

\* the first step of a task enters a scoring call that does not suspend and
\* has not returned yet
ScoreStartSync(i) ==
    /\ phase = "wait"
    /\ ~scoring_suspends
    /\ pc[i] = "created"
    /\ \A j \in 1..(i - 1) : pc[j] # "created"
    /\ SemFree(sem)
    /\ ~IsCancelled(cancellation_token)
    /\ ~EmptyContent(sorted[i])
    /\ invoked' = [invoked EXCEPT ![i] = @ + 1]
    /\ pc' = [pc EXCEPT ![i] = "scoring"]
    /\ sem' = sem - 1
    /\ UNCHANGED <<taskResult, raisedIn>>
    /\ UNCHANGED taskFrame

\* that call returns or raises, and the task runs on to its end
ScoreReturnSync(i) ==
    /\ phase = "wait"
    /\ ~scoring_suspends
    /\ pc[i] = "scoring"
    /\ \E raised \in BOOLEAN :
          /\ taskResult' = [taskResult EXCEPT ![i] =
                               ScoreResult(sorted[i], raised)]
          /\ raisedIn' = IF raised THEN raisedIn \cup {i} ELSE raisedIn
    /\ pc' = [pc EXCEPT ![i] = "finished"]
    /\ sem' = sem + 1
    /\ UNCHANGED invoked
    /\ UNCHANGED taskFrame

waitFrame == <<scoring_suspends, progress_tracker, cancellation_token,
               submitted, callback, sorted, sem, taskResult, collected, results,
               snapshots, result, invoked, raisedIn, flagAtCall,
               unbegunAtCancel, runs, cacheVars, managerVars>>

\* asyncio.wait returns because every task is done
WaitAllCompleted ==
    /\ phase = "wait"
    /\ \A i \in Tasks : pc[i] = "finished"
    /\ done' = Tasks
    /\ pending' = {}
    /\ phase' = "collect"
    /\ UNCHANGED pc
    /\ UNCHANGED waitFrame

\* asyncio.wait returns at the deadline; the pending tasks are cancelled
WaitTimeout ==
    /\ phase = "wait"
    /\ NoneCreated
    /\ \E i \in Tasks : pc[i] # "finished"
    /\ done' = {i \in Tasks : pc[i] = "finished"}
    /\ pending' = {i \in Tasks : pc[i] # "finished"}
    /\ pc' = [i \in Tasks |-> IF pc[i] = "finished" THEN "finished"
                                                    ELSE "cancelled"]
    /\ phase' = "collect"
    /\ UNCHANGED waitFrame

\* a progress update that counts successes only
UpdateCompletedOnly(t, r) ==
    [t EXCEPT !.completed_items = IF r.success THEN @ + 1 ELSE @,
              !.current_item = r.item_id]

\* the progress update of the collection loop
UpdateProgress(t, r) ==
    [t EXCEPT !.completed_items = IF r.success THEN @ + 1 ELSE @,
              !.failed_items = IF r.success THEN @ ELSE @ + 1,
              !.current_item = r.item_id]

\* the result recorded when collecting a task raises
CollectionError ==
    BatchResult("unknown", FALSE, None, "Task collection error", 0, 0)

\* a collection loop in which a raising callback costs the item its result
AfterCallbackLosing(rs, r, raises) ==
    IF raises THEN Append(rs, CollectionError) ELSE Append(rs, r)

\* the results list after one iteration: the task's result is appended
\* before the callback runs, the handler of a raising callback appends the
\* collection error
AfterCallback(rs, r, raises) ==
    IF raises THEN rs \o <<r, CollectionError>> ELSE Append(rs, r)

\* one iteration of "for task in done": the set is visited in any order
Collect(i) ==
    /\ phase = "collect"
    /\ i \in done \ collected
    /\ collected' = collected \cup {i}
    /\ progress_tracker' = UpdateProgress(progress_tracker, taskResult[i])
    /\ IF callback.given
       THEN /\ snapshots' = Append(snapshots, progress_tracker')
            /\ results' = AfterCallback(results, taskResult[i],
                              taskResult[i].item_id \in callback.raisesOn)
       ELSE /\ results' = Append(results, taskResult[i])
            /\ UNCHANGED snapshots
    /\ UNCHANGED <<scoring_suspends, cancellation_token, phase, submitted,
                   callback, sorted, pc, sem, taskResult, done, pending,
                   result, invoked, raisedIn, flagAtCall, unbegunAtCancel,
                   runs, cacheVars, managerVars>>

\* a single "Processing timeout" result however many tasks are pending
OneTimeoutResult(n) ==
    [j \in 1..(IF n > 0 THEN 1 ELSE 0) |->
        BatchResult("timeout", FALSE, None, "Processing timeout", 0, 0)]

\* one "Processing timeout" result per pending task
TimeoutResults(n) ==
    [j \in 1..n |-> BatchResult("timeout", FALSE, None, "Processing timeout", 0, 0)]

\* the end of _process_parallel and the return of process_batch
Finish ==
    /\ phase = "collect"
    /\ collected = done
    /\ LET rs == results \o TimeoutResults(Cardinality(pending))
       IN /\ results' = rs
          /\ result' = [success |-> TRUE, results |-> rs,
                        summary |-> create_summary(rs),
                        progress |-> progress_tracker]
    /\ phase' = "returned"
    /\ UNCHANGED <<scoring_suspends, progress_tracker, cancellation_token,
                   submitted, callback, sorted, pc, sem, taskResult, done,
                   pending, collected, snapshots, invoked, raisedIn,
                   flagAtCall, unbegunAtCancel, runs, cacheVars, managerVars>>

\* _create_summary(results, 0) called on a result list of the caller's
Summarise ==
    /\ phase = "summary"
    /\ result' = [success |-> TRUE, results |-> results,
                  summary |-> create_summary(results),
                  progress |-> progress_tracker]
    /\ phase' = "summarised"
    /\ UNCHANGED <<scoring_suspends, progress_tracker, cancellation_token,
                   submitted, callback, sorted, pc, sem, taskResult, done,
                   pending, collected, results, snapshots, invoked, raisedIn,
                   flagAtCall, unbegunAtCancel, runs, cacheVars, managerVars>>

\* the caller has its result (or the ValueError); the processor is idle again
ReturnToCaller ==
    /\ phase \in {"returned", "raised"}
    /\ phase' = "idle"
    /\ submitted' = << >>
    /\ callback' = NoCallback
    /\ sorted' = << >>
    /\ pc' = << >>
    /\ sem' = 0
    /\ taskResult' = << >>
    /\ done' = {}
    /\ pending' = {}
    /\ collected' = {}
    /\ results' = << >>
    /\ snapshots' = << >>
    /\ result' = None
    /\ invoked' = << >>
    /\ raisedIn' = {}
    /\ unbegunAtCancel' = {}
    /\ UNCHANGED <<scoring_suspends, progress_tracker, cancellation_token,
                   flagAtCall, runs, cacheVars, managerVars>>

(***************************************************************************)
(* BatchAnalysisManager                                                     *)
(*                                                                          *)
(* submit_batch calls may overlap: a call suspends while its processor      *)
(* runs the batch and other calls start or finish in the meantime.  A       *)
(* size-validation error and an empty batch end process_batch before it     *)
(* suspends, so such a call runs from start to end in one step.             *)
(***************************************************************************)
\* the content_items a caller can pass: up to one item more than the cap
ContentLists == UNION {[1..n -> ItemKinds] : n \in 0..(MaxBatchSize + 1)}

NewCall ==
    [st |-> "new", batch_id |-> None, n |-> 0, bad |-> FALSE,
     error |-> None, scored |-> 0, flag |-> FALSE]

\* the value of a manager query: the name of the call, its argument, and
\* the boolean, the instance or the list it returned
ManagerRet(op, arg, ok, num, list) ==
    [op |-> op, arg |-> arg, ok |-> ok, num |-> num, list |-> list]

NoQuery == ManagerRet(None, None, FALSE, 0, << >>)

\* what the manager actions below leave alone
managerRest == <<mret, registryVars, orun>>

ManagerInit ==
    /\ active_batches = [id \in BatchIds |-> 0]
    /\ batch_history = << >>
    /\ call = [c \in Calls |-> NewCall]
    /\ mret = NoQuery

get_active_batches == {id \in BatchIds : active_batches[id] # 0}

\* a cleanup that leaves the batch registered
KeepRegistered(active, id) == active

\* del self.active_batches[batch_id]
Unregister(active, id) == [active EXCEPT ![id] = 0]

\* self.active_batches[batch_id] = processor
Register(active, id, c) == [active EXCEPT ![id] = c]

\* the record submit_batch appends to the history
HistoryRecord(id, n, failed, ok) ==
    [batch_id |-> id, success |-> ok,
     summary |-> [total_items |-> n, failed_items |-> failed]]

\* submit_batch up to its first suspension: the conversion of the content
\* items, the registration of a new processor, and process_batch up to
\* asyncio.wait
\* the content_items hold something that is neither a str nor a dict
HasBadItem(items) == \E i \in 1..Len(items) : items[i] \notin {"str", "dict"}

\* where a call is after such a step, and what it was given
CallAt(st, id, items, error) ==
    [st |-> st, batch_id |-> id, n |-> Len(items),
     bad |-> HasBadItem(items), error |-> error, scored |-> 0,
     flag |-> FALSE]

\* a conversion loop that only looks at the first content item
ConversionFailsOnFirst(items) == items # << >> /\ items[1] = "other"

\* the conversion loop meets an item that is neither a str nor a dict
ConversionFails(items) == \E i \in 1..Len(items) : items[i] = "other"

SubmitBatch(c, id, items) ==
    /\ call[c].st = "new"
    /\ \A d \in 1..(c - 1) : call[d].st # "new"
    /\ IF ConversionFails(items)
       THEN /\ call' = [call EXCEPT ![c] =
                 CallAt("raised", id, items,
                        "ValueError: invalid content item type")]
            /\ UNCHANGED <<active_batches, batch_history>>
       ELSE IF Len(items) > MaxBatchSize
       THEN /\ call' = [call EXCEPT ![c] =
                 CallAt("raised", id, items,
                        "ValueError: batch size exceeds maximum")]
            /\ active_batches' =
                  Unregister(Register(active_batches, id, c), id)
            /\ UNCHANGED batch_history
       ELSE IF items = << >>
       THEN /\ call' = [call EXCEPT ![c] =
                 CallAt("returned", id, items, None)]
            /\ batch_history' = Append(batch_history,
                                       HistoryRecord(id, 0, 0, TRUE))
            /\ active_batches' =
                  Unregister(Register(active_batches, id, c), id)
       ELSE /\ call' = [call EXCEPT ![c] =
                 CallAt("running", id, items, None)]
            /\ active_batches' = Register(active_batches, id, c)
            /\ UNCHANGED batch_history
    /\ UNCHANGED <<cacheVars, batchVars, managerRest>>

\* process_batch has returned to a suspended submit_batch, some of the
\* items failed and some were scored (an item that fails was scored unless
\* it was empty or cancelled): the history record, the cleanup, the return;
\* the cleanup raises KeyError when the batch id is no longer registered
CompleteBatch(c, failed, scored) ==
    /\ call[c].st = "running"
    /\ failed \in 0..call[c].n
    /\ scored \in (call[c].n - failed)..call[c].n
    /\ batch_history' = Append(batch_history,
           HistoryRecord(call[c].batch_id, call[c].n, failed, TRUE))
    /\ IF active_batches[call[c].batch_id] # 0
       THEN /\ active_batches' = Unregister(active_batches, call[c].batch_id)
            /\ call' = [call EXCEPT ![c].st = "returned",
                                    ![c].scored = scored]
       ELSE /\ call' = [call EXCEPT ![c].st = "raised",
                                    ![c].error = "KeyError",
                                    ![c].scored = scored]
            /\ UNCHANGED active_batches
    /\ UNCHANGED <<cacheVars, batchVars, managerRest>>

\* a cancel_processing that leaves the flag as it is
FlagLeft(calls, c) == calls

\* self.active_batches[batch_id].cancel_processing(), on the processor the
\* call c created
CancelProcessingOf(calls, c) == [calls EXCEPT ![c].flag = TRUE]

\* cancel_batch(batch_id)
CancelBatch(id) ==
    /\ IF active_batches[id] # 0
       THEN /\ call' = CancelProcessingOf(call, active_batches[id])
            /\ mret' = ManagerRet("cancel_batch", id, TRUE, 0, << >>)
       ELSE /\ mret' = ManagerRet("cancel_batch", id, FALSE, 0, << >>)
            /\ UNCHANGED call
    /\ UNCHANGED <<active_batches, batch_history, cacheVars, batchVars,
                   registryVars, orun>>

\* the list slice lst[start:]: a negative start counts from the end, and
\* a start outside the list is clipped to it
SliceFrom(lst, start) ==
    LET n == Len(lst)
        from == IF start < 0
                THEN (IF n + start < 0 THEN 0 ELSE n + start)
                ELSE (IF start > n THEN n ELSE start)
    IN  SubSeq(lst, from + 1, n)

\* get_batch_history(limit)
GetBatchHistory(limit) ==
    /\ mret' = ManagerRet("get_batch_history", None, FALSE, limit,
                          IF batch_history # << >>
                          THEN SliceFrom(batch_history, 0 - limit)
                          ELSE << >>)
    /\ UNCHANGED <<active_batches, batch_history, call, cacheVars,
                   batchVars, registryVars, orun>>

(***************************************************************************)
(* CacheManager                                                             *)
(***************************************************************************)
CacheNames == {"default", "x", "y"}

\* AdvancedLRUCache(): the sizes of Config, which depend on the environment
\* and are written 0 here, and the shared path
DefaultConfig ==
    [explicit |-> FALSE, max_size |-> 0, ttl_seconds |-> 0,
     enable_persistence |-> FALSE, path |-> "cache.json"]

\* the configurations create_cache is called with
CacheConfigs ==
    {[max_size |-> 1, ttl_seconds |-> 1, enable_persistence |-> FALSE],
     [max_size |-> 2, ttl_seconds |-> 1, enable_persistence |-> TRUE]}

\* AdvancedLRUCache(max_size, ttl_seconds, enable_persistence,
\* persistence_path) as create_cache calls it
ExplicitConfig(name, cfg) ==
    [explicit |-> TRUE, max_size |-> cfg.max_size,
     ttl_seconds |-> cfg.ttl_seconds,
     enable_persistence |-> cfg.enable_persistence, path |-> name]

\* the contents of a cache just constructed
NoEntries == [n |-> 0, old |-> 0]

NoReport == [n \in CacheNames |-> [instance |-> 0, num |-> 0]]

\* CacheManager.__init__
RegistryInit ==
    /\ instances = <<DefaultConfig>>
    /\ default_cache = 1
    /\ caches = [n \in CacheNames |-> 0]
    /\ got = [n \in CacheNames |-> 0]
    /\ handed = [n \in CacheNames |-> 0]
    /\ held = <<NoEntries>>
    /\ report = NoReport

\* a lookup that never finds the name
AlwaysUnseen(reg, name) == TRUE

\* cache_name not in self.caches
Unseen(reg, name) == reg[name] = 0

registryFrame ==
    <<active_batches, batch_history, call, cacheVars, batchVars, orun>>

\* get_cache(cache_name)
GetCache(name) ==
    /\ IF name = "default"
       THEN /\ mret' = ManagerRet("get_cache", name, FALSE, default_cache,
                                  << >>)
            /\ UNCHANGED <<instances, caches, held>>
       ELSE IF Unseen(caches, name)
       THEN /\ Len(instances) < MaxInstances
            /\ instances' = Append(instances, DefaultConfig)
            /\ held' = Append(held, NoEntries)
            /\ caches' = [caches EXCEPT ![name] = Len(instances) + 1]
            /\ mret' = ManagerRet("get_cache", name, FALSE,
                                  Len(instances) + 1, << >>)
       ELSE /\ mret' = ManagerRet("get_cache", name, FALSE, caches[name],
                                  << >>)
            /\ UNCHANGED <<instances, caches, held>>
    /\ got' = IF got[name] = 0 THEN [got EXCEPT ![name] = mret'.num]
              ELSE got
    /\ handed' = [handed EXCEPT ![name] = mret'.num]
    /\ UNCHANGED <<default_cache, report, registryFrame>>

\* create_cache(cache_name, max_size, ttl_seconds, enable_persistence)
CreateCache(name, cfg) ==
    /\ Len(instances) < MaxInstances
    /\ instances' = Append(instances, ExplicitConfig(name, cfg))
    /\ held' = Append(held, NoEntries)
    /\ caches' = [caches EXCEPT ![name] = Len(instances) + 1]
    /\ mret' = ManagerRet("create_cache", name, FALSE, Len(instances) + 1,
                          << >>)
    /\ handed' = IF name = "default" THEN handed
                 ELSE [handed EXCEPT ![name] = Len(instances) + 1]
    /\ UNCHANGED <<got, default_cache, report, registryFrame>>

\* a caller that holds cache object i puts a new key into it
StoreEntry(i) ==
    /\ held[i].n < MaxHeld
    /\ held' = [held EXCEPT ![i].n = @ + 1]
    /\ UNCHANGED <<instances, default_cache, caches, got, handed, report,
                   mret, registryFrame>>

\* time passes until the entries of cache object i have expired
ExpireEntries(i) ==
    /\ held[i].old < held[i].n
    /\ held' = [held EXCEPT ![i].old = held[i].n]
    /\ UNCHANGED <<instances, default_cache, caches, got, handed, report,
                   mret, registryFrame>>

\* the names the loops over self.caches visit
RegisteredNames == {n \in CacheNames : caches[n] # 0}

\* the objects get_all_stats, cleanup_all_expired and clear_all act on
Managed == {default_cache} \cup {caches[n] : n \in RegisteredNames}

\* the mapping built from {"default": <of _default_cache>} by the loop
\* `for name, cache in self.caches.items(): <mapping>[name] = <of cache>`,
\* where of[i] is what the object i gives
ByName(of) ==
    [n \in CacheNames |->
        IF n \in RegisteredNames
        THEN [instance |-> caches[n], num |-> of[caches[n]]]
        ELSE IF n = "default"
        THEN [instance |-> default_cache, num |-> of[default_cache]]
        ELSE [instance |-> 0, num |-> 0]]

\* get_all_stats(): per object the current_size of its get_stats()
GetAllStats ==
    /\ report' = ByName([i \in 1..Len(held) |-> held[i].n])
    /\ mret' = ManagerRet("get_all_stats", None, FALSE, 0, << >>)
    /\ UNCHANGED <<instances, default_cache, caches, got, handed, held,
                   registryFrame>>

\* cleanup_all_expired(): per object the count its cleanup_expired() returns
CleanupAllExpired ==
    /\ report' = ByName([i \in 1..Len(held) |-> held[i].old])
    /\ held' = [i \in 1..Len(held) |->
                  IF i \in Managed
                  THEN [n |-> held[i].n - held[i].old, old |-> 0]
                  ELSE held[i]]
    /\ mret' = ManagerRet("cleanup_all_expired", None, FALSE, 0, << >>)
    /\ UNCHANGED <<instances, default_cache, caches, got, handed,
                   registryFrame>>

\* clear_all()
ClearAll ==
    /\ held' = [i \in 1..Len(held) |->
                  IF i \in Managed THEN NoEntries ELSE held[i]]
    /\ mret' = ManagerRet("clear_all", None, FALSE, 0, << >>)
    /\ UNCHANGED <<instances, default_cache, caches, got, handed, report,
                   registryFrame>>

(***************************************************************************)
(* Overlapping process_batch calls on one BatchProcessor                    *)
(*                                                                          *)
(* A call runs without suspending up to asyncio.wait, and again from the    *)
(* return of asyncio.wait to its own return: awaiting a task that is done   *)
(* does not yield.  Calls made together therefore interleave as whole       *)
(* halves, and share self.progress_tracker and self._cancellation_token.    *)
(***************************************************************************)
Overlaps == 1..MaxOverlap

NewRun == [st |-> "new", n |-> 0, progress |-> NoTracker]

OverlapInit == orun = [r \in Overlaps |-> NewRun]

\* how the tasks of a call ended when asyncio.wait returned: scored, failed,
\* or still pending at the deadline
Outcomes(n) == [1..n -> {"ok", "failed", "pending"}]

\* the collection loop over the tasks that are done, from task j on
RECURSIVE CollectFrom(_, _, _)
CollectFrom(t, outcomes, j) ==
    IF j > Len(outcomes) THEN t
    ELSE IF outcomes[j] = "pending" THEN CollectFrom(t, outcomes, j + 1)
    ELSE CollectFrom(
            UpdateProgress(t, BatchResult(IdPool[j], outcomes[j] = "ok", None,
                                          None, 1, 0)),
            outcomes, j + 1)

overlapFrame ==
    <<scoring_suspends, phase, submitted, callback, runLocal, flagAtCall,
      runs, cacheVars, active_batches, batch_history, call, mret,
      registryVars>>

\* process_batch on n items, 1 <= n <= max_batch_size, up to asyncio.wait
OverlapStart(r, n) ==
    /\ orun[r].st = "new"
    /\ \A q \in 1..(r - 1) : orun[q].st # "new"
    /\ progress_tracker' = BatchProgress(n)
    /\ cancellation_token' = FALSE
    /\ orun' = [orun EXCEPT ![r] = [st |-> "wait", n |-> n,
                                    progress |-> NoTracker]]
    /\ UNCHANGED overlapFrame

\* the same call from the return of asyncio.wait to its own return
OverlapCollect(r, outcomes) ==
    /\ orun[r].st = "wait"
    /\ outcomes \in Outcomes(orun[r].n)
    /\ progress_tracker' = CollectFrom(progress_tracker, outcomes, 1)
    /\ orun' = [orun EXCEPT ![r].st = "returned",
                            ![r].progress = progress_tracker']
    /\ UNCHANGED <<cancellation_token, overlapFrame>>

(***************************************************************************)
(* Specifications                                                           *)
(***************************************************************************)
BatchIdle ==
    /\ BatchInit
    /\ scoring_suspends = FALSE
    /\ ManagerInit
    /\ RegistryInit
    /\ OverlapInit

CacheIdle ==
    /\ CacheInit
    /\ max_size = 1
    /\ ttl_seconds = 1
    /\ enable_persistence = FALSE

InitCache == CacheInit /\ ~enable_persistence /\ BatchIdle

\* the files a first construction can find at the path and start empty
\* from: none, one that does not parse, one with a malformed entry
FoundFiles == {Absent, Corrupt, Malformed}

\* a persistent cache constructed with max_size 2 over such a file
InitPersist ==
    /\ max_size = 2
    /\ ttl_seconds \in 1..MaxTTL
    /\ enable_persistence = TRUE
    /\ now = 0
    /\ disk \in FoundFiles
    /\ cache = load_from_disk(disk, TRUE, 2, ttl_seconds)
    /\ stats = ZeroStats
    /\ ret = RetNone
    /\ last = [op |-> "init", key |-> None, outcome |-> None]
    /\ lastUse = NoUse
    /\ nops = 0
    /\ scen = 0
    /\ BatchIdle

\* a fresh in-memory cache with room for TagCacheSize entries
InitTags ==
    /\ max_size = TagCacheSize
    /\ ttl_seconds \in 1..MaxTTL
    /\ enable_persistence = FALSE
    /\ cache = << >>
    /\ stats = ZeroStats
    /\ disk = Absent
    /\ now = 0
    /\ ret = RetNone
    /\ last = [op |-> "init", key |-> None, outcome |-> None]
    /\ lastUse = NoUse
    /\ nops = 0
    /\ scen = 0
    /\ BatchIdle

InitBatch ==
    CacheIdle /\ BatchInit /\ ManagerInit /\ RegistryInit /\ OverlapInit

\* a processor about to summarise a result list
InitSummary ==
    /\ CacheIdle
    /\ scoring_suspends = FALSE
    /\ progress_tracker = NoTracker
    /\ cancellation_token = FALSE
    /\ phase = "summary"
    /\ submitted = << >>
    /\ callback = NoCallback
    /\ sorted = << >>
    /\ pc = << >>
    /\ sem = 0
    /\ taskResult = << >>
    /\ done = {}
    /\ pending = {}
    /\ collected = {}
    /\ results \in ResultLists
    /\ snapshots = << >>
    /\ result = None
    /\ invoked = << >>
    /\ raisedIn = {}
    /\ flagAtCall = FALSE
    /\ unbegunAtCancel = {}
    /\ runs = 0
    /\ ManagerInit
    /\ RegistryInit
    /\ OverlapInit

InitManager == CacheIdle /\ BatchIdle

\* every operation of one in-memory cache, at most MaxOps calls
NextCache ==
    \/ \E k \in Keys : nops < MaxOps /\ Get(k) /\ UNCHANGED <<batchVars, managerVars>>
    \/ \E k \in Keys, v \in PlainValues, tags \in TagSets :
          nops < MaxOps /\ Put(k, v, tags) /\ UNCHANGED <<batchVars, managerVars>>
    \/ \E k \in Keys : nops < MaxOps /\ Invalidate(k) /\ UNCHANGED <<batchVars, managerVars>>
    \/ \E tags \in TagSets :
          nops < MaxOps /\ InvalidateByTags(tags) /\ UNCHANGED <<batchVars, managerVars>>
    \/ nops < MaxOps /\ Clear /\ UNCHANGED <<batchVars, managerVars>>
    \/ nops < MaxOps /\ CleanupExpired /\ UNCHANGED <<batchVars, managerVars>>
    \/ Tick /\ UNCHANGED <<batchVars, managerVars>>

\* the operations that insert, hit and remove single keys, at most MaxLRUOps
\* calls: long enough for put(a); put(b); get(a); put(c)
NextLRU ==
    \/ \E k \in Keys : nops < MaxLRUOps /\ Get(k) /\ UNCHANGED <<batchVars, managerVars>>
    \/ \E k \in Keys, v \in PlainValues :
          nops < MaxLRUOps /\ Put(k, v, {}) /\ UNCHANGED <<batchVars, managerVars>>
    \/ \E k \in Keys : nops < MaxLRUOps /\ Invalidate(k) /\ UNCHANGED <<batchVars, managerVars>>
    \/ nops < MaxLRUOps /\ CleanupExpired /\ UNCHANGED <<batchVars, managerVars>>
    \/ Tick /\ UNCHANGED <<batchVars, managerVars>>

\* puts of either value under either tag set, and gets, on two keys
NextReplace ==
    \/ \E k \in PersistKeys : nops < MaxOps /\ Get(k) /\ UNCHANGED <<batchVars, managerVars>>
    \/ \E k \in PersistKeys, v \in Values, tags \in TagSets :
          nops < MaxOps /\ Put(k, v, tags) /\ UNCHANGED <<batchVars, managerVars>>
    \/ Tick /\ UNCHANGED <<batchVars, managerVars>>

\* gets, puts and sweeps on one key, and get_stats
NextStats ==
    \/ nops < MaxLRUOps /\ Get("a") /\ UNCHANGED <<batchVars, managerVars>>
    \/ \E v \in PlainValues :
          nops < MaxLRUOps /\ Put("a", v, {}) /\ UNCHANGED <<batchVars, managerVars>>
    \/ nops < MaxLRUOps /\ Clear /\ UNCHANGED <<batchVars, managerVars>>
    \/ GetStats /\ UNCHANGED <<batchVars, managerVars>>
    \/ Tick /\ UNCHANGED <<batchVars, managerVars>>

\* puts under every tag list and invalidations by every tag list
NextTags ==
    \/ \E k \in Keys, v \in PlainValues, tags \in TagChoices :
          nops < MaxTagOps /\ Put(k, v, tags) /\ UNCHANGED <<batchVars, managerVars>>
    \/ \E tags \in TagChoices :
          nops < MaxTagOps /\ InvalidateByTags(tags) /\ UNCHANGED <<batchVars, managerVars>>

\* the batches of 1..MaxBatchSize items with content and equal priority
DeadlineBatches ==
    {[i \in 1..n |-> [id |-> IdPool[i], content |-> <<97>>,
                      frameworks |-> << >>, priority |-> 0]] :
        n \in 1..MaxBatchSize}

\* what the event loop does when it has control: first steps and wake-ups
\* of tasks, the return of asyncio.wait (at the deadline if tasks are left),
\* the rest of process_batch
LoopStep ==
    /\ ~LoopBlocked
    /\ \/ \E i \in Tasks : TaskFirstStep(i)
       \/ \E i \in Tasks : ScoreStartSync(i)
       \/ \E i \in Tasks : TaskResume(i)
       \/ WaitAllCompleted
       \/ WaitTimeout
       \/ \E i \in Tasks : Collect(i)
       \/ Finish
       \/ ReturnToCaller

\* every step of LoopStep changes one of these
loopVars == <<phase, pc, collected>>

\* runs of one processor whose scoring calls take time, or never return
NextDeadline ==
    \/ /\ phase = "idle"
       /\ \E items \in DeadlineBatches : ProcessBatch(items, NoCallback)
    \/ LoopStep
    \/ ~LoopBlocked /\ \E i \in Tasks : ScoreEnd(i)
    \/ \E i \in Tasks : ScoreReturnSync(i)

\* the one-item batches whose content is any string over ContentChars
ItemContents == UNION {[1..n -> ContentChars] : n \in 0..MaxContentLen}

OneItemBatches ==
    {<<[id |-> IdPool[1], content |-> c, frameworks |-> << >>,
        priority |-> 0]>> : c \in ItemContents}

\* runs of one processor on one-item batches
NextItem ==
    \/ /\ phase = "idle"
       /\ \E items \in OneItemBatches : \E cb \in Callbacks(items) :
             ProcessBatch(items, cb)
    \/ CancelProcessing
    \/ \E i \in Tasks : TaskFirstStep(i)
    \/ \E i \in Tasks : ScoreEnd(i)
    \/ WaitAllCompleted
    \/ WaitTimeout
    \/ \E i \in Tasks : Collect(i)
    \/ Finish
    \/ ReturnToCaller

\* the content_items of at most one string
StringLists == {<< >>, <<"str">>}

\* the failing items of a batch were all scored, or none of them was
ScoredChoices(c, failed) == {call[c].n - failed, call[c].n}

\* overlapping submit_batch calls on one manager
NextManager ==
    \/ \E c \in Calls, id \in BatchIds, items \in ContentLists :
          SubmitBatch(c, id, items)
    \/ \E c \in Calls, failed \in 0..MaxBatchSize :
          \E scored \in ScoredChoices(c, failed) :
             CompleteBatch(c, failed, scored)

\* overlapping submit_batch calls and cancel_batch calls
NextCancel ==
    \/ \E c \in Calls, id \in BatchIds, items \in StringLists :
          SubmitBatch(c, id, items)
    \/ \E c \in Calls, failed \in 0..MaxBatchSize :
          \E scored \in ScoredChoices(c, failed) :
             CompleteBatch(c, failed, scored)
    \/ \E id \in BatchIds : CancelBatch(id)

\* overlapping submit_batch calls and get_batch_history calls
NextHistory ==
    \/ \E c \in Calls, id \in BatchIds, items \in StringLists :
          SubmitBatch(c, id, items)
    \/ \E c \in Calls, failed \in 0..MaxBatchSize :
          \E scored \in ScoredChoices(c, failed) :
             CompleteBatch(c, failed, scored)
    \/ \E limit \in 0..MaxLimit : GetBatchHistory(limit)

\* the names the callers of SpecReports use
ReportNames == {"default", "x"}

\* the same with entries in the caches and the calls that visit every
\* cache
NextReports ==
    \/ \E name \in ReportNames : Len(instances) < MaxReported /\ GetCache(name)
    \/ \E name \in ReportNames, cfg \in CacheConfigs :
          Len(instances) < MaxReported /\ CreateCache(name, cfg)
    \/ \E i \in 1..Len(instances) : StoreEntry(i)
    \/ \E i \in 1..Len(instances) : ExpireEntries(i)
    \/ GetAllStats
    \/ CleanupAllExpired
    \/ ClearAll

\* get_cache and create_cache calls on one CacheManager
NextRegistry ==
    \/ \E name \in CacheNames : GetCache(name)
    \/ \E name \in CacheNames, cfg \in CacheConfigs : CreateCache(name, cfg)

\* process_batch calls in flight together on one processor
NextOverlap ==
    \/ \E r \in Overlaps, n \in 1..MaxBatchSize : OverlapStart(r, n)
    \/ \E r \in Overlaps :
          \E outcomes \in Outcomes(orun[r].n) : OverlapCollect(r, outcomes)

NextBatch ==
    \/ /\ phase = "idle"
       /\ \E items \in Batches : \E cb \in Callbacks(items) :
             ProcessBatch(items, cb)
    \/ CancelProcessing
    \/ \E i \in Tasks : TaskFirstStep(i)
    \/ \E i \in Tasks : TaskResume(i)
    \/ \E i \in Tasks : ScoreEnd(i)
    \/ WaitAllCompleted
    \/ WaitTimeout
    \/ \E i \in Tasks : Collect(i)
    \/ Finish
    \/ ReturnToCaller

\* every operation of a persistent cache, and its reconstruction from the
\* snapshot file
NextSnapshot ==
    \/ \E ms \in 1..MaxCacheSize, ttl \in 1..MaxTTL :
          nops < MaxOps /\ Construct(ms, ttl, TRUE) /\ UNCHANGED <<batchVars, managerVars>>
    \/ \E k \in PersistKeys : nops < MaxOps /\ Get(k) /\ UNCHANGED <<batchVars, managerVars>>
    \/ \E k \in PersistKeys, v \in PlainValues, tags \in TagSets :
          nops < MaxOps /\ Put(k, v, tags) /\ UNCHANGED <<batchVars, managerVars>>
    \/ \E k \in PersistKeys :
          nops < MaxOps /\ Invalidate(k) /\ UNCHANGED <<batchVars, managerVars>>
    \/ \E tags \in TagSets :
          nops < MaxOps /\ InvalidateByTags(tags) /\ UNCHANGED <<batchVars, managerVars>>
    \/ nops < MaxOps /\ Clear /\ UNCHANGED <<batchVars, managerVars>>
    \/ nops < MaxOps /\ CleanupExpired /\ UNCHANGED <<batchVars, managerVars>>
    \/ Tick /\ UNCHANGED <<batchVars, managerVars>>

\* a persistent cache and its reconstruction from the snapshot file
NextPersist ==
    \/ \E ms \in 1..MaxCacheSize, ttl \in 1..MaxTTL :
          nops < MaxOps /\ Construct(ms, ttl, TRUE) /\ UNCHANGED <<batchVars, managerVars>>
    \/ \E k \in PersistKeys : nops < MaxOps /\ Get(k) /\ UNCHANGED <<batchVars, managerVars>>
    \/ \E k \in PersistKeys, v \in PersistValues :
          nops < MaxOps /\ Put(k, v, {}) /\ UNCHANGED <<batchVars, managerVars>>
    \/ Tick /\ UNCHANGED <<batchVars, managerVars>>

SpecCache == InitCache /\ [][NextCache]_vars

SpecLRU == InitCache /\ [][NextLRU]_vars

SpecReplace == InitCache /\ [][NextReplace]_vars

SpecTags == InitTags /\ [][NextTags]_vars

SpecPersist == InitPersist /\ [][NextPersist]_vars

SpecSnapshot == InitPersist /\ [][NextSnapshot]_vars

SpecBatch == InitBatch /\ [][NextBatch]_vars

\* the event loop runs what is ready, and fires the deadline timer of
\* asyncio.wait when it is due, whenever no plain function call holds it;
\* nothing makes a scoring call return
SpecDeadline == InitBatch /\ [][NextDeadline]_vars /\ WF_loopVars(LoopStep)

SpecItem == InitBatch /\ [][NextItem]_vars

SpecSummary == InitSummary /\ [][Summarise]_vars

SpecCancel == InitManager /\ [][NextCancel]_vars

SpecHistory == InitManager /\ [][NextHistory]_vars

SpecRegistry == InitManager /\ [][NextRegistry]_vars

SpecReports == InitManager /\ [][NextReports]_vars

SpecStats == InitCache /\ [][NextStats]_vars

SpecOverlap == InitManager /\ [][NextOverlap]_vars

SpecManager == InitManager /\ [][NextManager]_vars


(***************************************************************************)
(* Claims about AdvancedLRUCache, checked under SpecCache and SpecLRU       *)
(***************************************************************************)
CacheKeys == [i \in 1..Len(cache) |-> cache[i].key]

\* C1: after every put the cache holds at most max_size entries, whatever
\* calls of put, get, invalidate, invalidate_by_tags, clear and
\* cleanup_expired came before
C1_CapacityAfterPut == last.op = "put" => Len(cache) <= max_size

\* a put that had to evict left the cache exactly full
C1_Witness ==
    /\ last.op = "put"
    /\ last.outcome = "evicted"
    /\ Len(cache) = max_size

\* the present keys stand in the order of their last insertion or hit
RecencyOrdered ==
    \A i, j \in 1..Len(cache) :
        i < j => lastUse[cache[i].key] < lastUse[cache[j].key]

\* the key just inserted or hit is the last one
MostRecentLast ==
    (last.op = "put" \/ (last.op = "get" /\ last.outcome = "hit"))
        => (cache # << >> /\ cache[Len(cache)].key = last.key)

\* the scenario of the claim: put(a); put(b); get(a); put(c) with max_size 2
ScenarioResult == (scen = 4 /\ max_size = 2) => CacheKeys = <<"a", "c">>

\* a put that overflows removes exactly the first key of the order, which is
\* the present key whose last insertion or hit is the oldest
EvictsOldest ==
    (last'.op = "put" /\ last'.outcome = "evicted" /\ nops' = nops + 1)
        => /\ cache # << >>
           /\ KeysOf(cache') = (KeysOf(cache) \cup {last'.key}) \ {cache[1].key}
           /\ \A k \in KeysOf(cache) \ {cache[1].key} :
                 lastUse[cache[1].key] < lastUse[k]

\* C2: the recency order is the order of last insertion-or-hit, the most
\* recently inserted or hit key is last, an overflowing put evicts the first
\* (oldest) key, and put(a); put(b); get(a); put(c) with max_size 2 leaves
\* exactly a and c
C2_LRUOrder ==
    /\ [](RecencyOrdered /\ MostRecentLast /\ ScenarioResult)
    /\ [][EvictsOldest]_vars

\* the scenario has run to its end on a cache of capacity 2
C2_Witness == scen = 4 /\ max_size = 2 /\ stats.evictions = 1

\* C3: a get of a present key whose age exceeds ttl_seconds returns absent,
\* removes the entry, adds exactly 1 to misses and to expired_removals, and
\* leaves hits and evictions alone
C3_ExpiredGet ==
    [][\A k \in Keys :
          (/\ last'.op = "get" /\ last'.key = k /\ nops' = nops + 1
           /\ Has(cache, k)
           /\ now - Lookup(cache, k).created_at > ttl_seconds)
          => /\ ret' = RetNone
             /\ ~Has(cache', k)
             /\ Len(cache') = Len(cache) - 1
             /\ stats'.misses = stats.misses + 1
             /\ stats'.expired_removals = stats.expired_removals + 1
             /\ stats'.hits = stats.hits
             /\ stats'.evictions = stats.evictions]_vars

\* a get has just removed an expired entry that had been hit before
C3_Witness ==
    /\ last.op = "get"
    /\ last.outcome = "expired"
    /\ stats.expired_removals = 1
    /\ stats.hits >= 1

\* put(k, v, tags) on a present key k: same number of entries, same keys, no
\* eviction counted, k last in the order, and its entry is a new one holding
\* v and exactly the given tags, never accessed
ReplacesEntry ==
    \A k \in Keys, v \in Values, tags \in TagSets :
        (Has(cache, k) /\ last'.op = "put" /\ Put(k, v, tags))
            => /\ Len(cache') = Len(cache)
               /\ KeysOf(cache') = KeysOf(cache)
               /\ stats'.evictions = stats.evictions
               /\ cache'[Len(cache')].key = k
               /\ cache'[Len(cache')].value = v
               /\ cache'[Len(cache')].tags = tags
               /\ cache'[Len(cache')].access_count = 0
               /\ cache'[Len(cache')].created_at = now

\* a get(k) that follows a put on k before the TTL has elapsed returns the
\* value the entry of k holds, which is the one that put stored
GetAfterPut ==
    \A k \in Keys :
        (/\ last.op = "put" /\ last.key = k
         /\ last'.op = "get"
         /\ Get(k)
         /\ ~is_expired(cache[Len(cache)], ttl_seconds))
            => /\ cache[Len(cache)].key = k
               /\ ret' = RetValue(cache[Len(cache)].value)
               /\ last'.outcome = "hit"

\* C11: put(k, v2) on a present key replaces the entry: the number of
\* entries is unchanged, nothing is evicted, k becomes the most recent
\* entry, a following get(k) returns v2, and the new entry has access_count
\* 0 and only the tags of the second put
C11_Replace == [][ReplacesEntry]_vars /\ [][GetAfterPut]_vars

\* put, a hit, and a second put on the same key: one entry, tagged by the
\* second put only and not yet accessed
C11_Witness ==
    /\ nops = 3
    /\ last.op = "put"
    /\ stats.hits = 1
    /\ stats.evictions = 0
    /\ Len(cache) = 1
    /\ cache[1].tags = {}
    /\ cache[1].value = Str(<< >>)
    /\ cache[1].access_count = 0

PosOf(c, k) == CHOOSE i \in 1..Len(c) : c[i].key = k

\* invalidate_by_tags(T): the keys that go are those whose tags meet T, the
\* call returns their number, what stays is unchanged and in the same order
RemovesTagged ==
    \A T \in TagChoices :
        (last'.op = "invalidate_by_tags" /\ InvalidateByTags(T))
            => /\ KeysOf(cache) \ KeysOf(cache') =
                     {k \in KeysOf(cache) : Lookup(cache, k).tags \cap T # {}}
               /\ KeysOf(cache') \subseteq KeysOf(cache)
               /\ ret' = RetInt(Cardinality(KeysOf(cache) \ KeysOf(cache')))
               /\ Len(cache') = Len(cache) - ret'.num
               /\ \A k \in KeysOf(cache') : Lookup(cache', k) = Lookup(cache, k)
               /\ \A i, j \in 1..Len(cache') :
                     i < j => PosOf(cache, cache'[i].key) < PosOf(cache, cache'[j].key)
               /\ T = {} => (ret' = RetInt(0) /\ cache' = cache)

\* C12: invalidate_by_tags(T) removes exactly the entries whose tag set
\* intersects T, returns the number removed, leaves the other entries and
\* their relative order unchanged, and with T empty removes nothing and
\* returns 0
C12_TagInvalidation == [][RemovesTagged]_vars

\* three tagged entries, of which an invalidation removed two and left the
\* one tagged t2 only
C12_Witness ==
    /\ last.op = "invalidate_by_tags"
    /\ nops = 4
    /\ ret = RetInt(2)
    /\ Len(cache) = 1
    /\ cache[1].tags = {"t2"}

\* C18: clear() removes every entry and leaves hits, misses, evictions and
\* expired_removals as they were before the call
C18_ClearKeepsCounters ==
    [][(last'.op = "clear" /\ nops' = nops + 1)
          => /\ cache' = << >>
             /\ stats'.hits = stats.hits
             /\ stats'.misses = stats.misses
             /\ stats'.evictions = stats.evictions
             /\ stats'.expired_removals = stats.expired_removals]_vars

\* a cache that had evicted an entry, and still held one, was cleared
C18_Witness ==
    /\ last.op = "clear"
    /\ nops = 3
    /\ stats.evictions = 1
    /\ cache = << >>

\* the keys whose entry is older than ttl_seconds
TooOld(c) == {k \in KeysOf(c) : now - Lookup(c, k).created_at > ttl_seconds}

\* C19: cleanup_expired() removes exactly the entries whose age exceeds
\* ttl_seconds at the time of the call, accessed or not, keeps every other
\* entry, returns the number removed and adds it to expired_removals, and
\* leaves hits, misses and evictions alone
C19_CleanupExpired ==
    [][(last'.op = "cleanup_expired" /\ nops' = nops + 1)
          => /\ KeysOf(cache') = KeysOf(cache) \ TooOld(cache)
             /\ Len(cache') = Cardinality(KeysOf(cache'))
             /\ \A k \in KeysOf(cache') : Lookup(cache', k) = Lookup(cache, k)
             /\ ret' = RetInt(Cardinality(TooOld(cache)))
             /\ stats'.expired_removals = stats.expired_removals + ret'.num
             /\ stats'.hits = stats.hits
             /\ stats'.misses = stats.misses
             /\ stats'.evictions = stats.evictions]_vars

\* a sweep removed an expired entry that had been read, the only one
C19_Witness ==
    /\ last.op = "cleanup_expired"
    /\ ret = RetInt(1)
    /\ stats.hits = 1
    /\ stats.expired_removals = 1
    /\ cache = << >>

\* the snapshot on disk was written by a put and holds, for key k, the entry
\* the cache holds: the write of the last put on k succeeded and no later
\* write failed
OnDisk(k) ==
    /\ disk.kind = "snapshot"
    /\ \A j \in 1..Len(disk.entries) : disk.entries[j].value # NoValue
    /\ \E j \in 1..Len(disk.entries) :
          /\ disk.entries[j].key = k
          /\ disk.entries[j].created_at = Lookup(cache, k).created_at
          /\ disk.entries[j].value = JsonDump(Lookup(cache, k).value)

\* get(k) on cache c at the present time would return v
WouldReturn(c, k, ttl, v) ==
    /\ Has(c, k)
    /\ ~is_expired(Lookup(c, k), ttl)
    /\ Lookup(c, k).value = v

\* C13 as claimed: a fresh cache constructed on the path of a persistent
\* cache, with the same ttl_seconds and a max_size of at least the number of
\* stored entries, returns from get, for every stored key whose TTL has not
\* elapsed, the value last put for that key
C13_RoundTrip ==
    [][\A k \in PersistKeys :
          (/\ last'.op = "construct" /\ nops' = nops + 1
           /\ ttl_seconds' = ttl_seconds
           /\ Has(cache, k)
           /\ ~is_expired(Lookup(cache, k), ttl_seconds)
           /\ OnDisk(k)
           /\ max_size' >= Len(disk.entries))
          => WouldReturn(cache', k, ttl_seconds', Lookup(cache, k).value)]_vars

\* a put whose snapshot write failed, leaving the file as it was or
\* truncated, has stored its entry all the same: get returns the value
PutSurvivesSaveFailure ==
    \A k \in PersistKeys, v \in PersistValues :
        (/\ last'.op = "put"
         /\ Put(k, v, {})
         /\ disk' \in {disk, Corrupt}
         /\ disk' # Snapshot(cache', max_size, ttl_seconds))
            => /\ WouldReturn(cache', k, ttl_seconds, v)
               /\ Len(cache') <= max_size

\* reading the file at the path fails: it does not parse, or an entry the
\* loop reaches has no value
LoadFails(d, ms, ttl) ==
    \/ d.kind = "corrupt"
    \/ d.kind = "snapshot" /\ LoadEntries(d.entries, << >>, ms, ttl).raised

\* a construction whose load fails yields an empty cache with zero counters
LoadFailureStartsEmpty ==
    (/\ last'.op = "construct" /\ nops' = nops + 1
     /\ LoadFails(disk, max_size', ttl_seconds'))
        => /\ cache' = << >>
           /\ stats' = ZeroStats
           /\ disk' = disk

\* C14: a persistence failure is not raised to the caller: a put whose
\* snapshot write fails still stores its entry, retrievable by get; a
\* construction whose read or parse of the snapshot fails, part-way through
\* the entries included, succeeds with an empty cache and nothing partially
\* loaded
C14_PersistenceFaults ==
    [][PutSurvivesSaveFailure]_vars /\ [][LoadFailureStartsEmpty]_vars

\* a construction with room for two entries met the file whose second entry
\* is malformed, after loading the first, and started empty
C14_Witness ==
    /\ last.op = "construct"
    /\ disk = Malformed
    /\ max_size = 2
    /\ now = 0
    /\ LoadEntries(disk.entries, << >>, max_size, ttl_seconds).loaded # << >>
    /\ cache = << >>

\* a construction that found a snapshot at the path
LoadStep ==
    last'.op = "construct" /\ nops' = nops + 1 /\ disk.kind = "snapshot"

\* the place in the file of the entry saved under key k
FilePos(k) == CHOOSE j \in 1..Len(disk.entries) : disk.entries[j].key = k

\* every entry of the constructed cache is an entry of the file with its
\* saved created_at, access_count and tags
LoadedAsSaved ==
    \A i \in 1..Len(cache') :
        /\ \E j \in 1..Len(disk.entries) : disk.entries[j].key = cache'[i].key
        /\ cache'[i].created_at = disk.entries[FilePos(cache'[i].key)].created_at
        /\ cache'[i].access_count
              = disk.entries[FilePos(cache'[i].key)].access_count
        /\ cache'[i].tags = disk.entries[FilePos(cache'[i].key)].tags

\* the constructed cache lists its entries in the order of the file
LoadedInFileOrder ==
    \A i, j \in 1..Len(cache') :
        i < j => FilePos(cache'[i].key) < FilePos(cache'[j].key)

\* C33: after construction with persistence enabled the cache holds at most
\* max_size entries, taken from the snapshot in file order, none older than
\* the current ttl_seconds; each keeps its saved created_at, access_count
\* and tags, and hits, misses, evictions and expired_removals are untouched
C33_LoadedEntries ==
    [][LoadStep =>
         /\ Len(cache') <= max_size'
         /\ LoadedAsSaved
         /\ LoadedInFileOrder
         /\ \A i \in 1..Len(cache') :
               now - cache'[i].created_at <= ttl_seconds'
         /\ stats'.hits = 0
         /\ stats'.misses = 0
         /\ stats'.evictions = 0
         /\ stats'.expired_removals = 0]_vars

\* a cache of max_size 1 was constructed on a snapshot of two live entries
\* and holds the first of the file
C33_Witness ==
    /\ last.op = "construct"
    /\ disk.kind = "snapshot"
    /\ Len(disk.entries) = 2
    /\ max_size = 1
    /\ Len(cache) = 1
    /\ cache[1].key = disk.entries[1].key
    /\ \A j \in 1..2 : now - disk.entries[j].created_at < ttl_seconds

\* C34 as claimed: expiry is decided the same way everywhere: a construction
\* with room for the whole file drops a saved entry exactly when is_expired,
\* as get, cleanup_expired and the snapshot writer use it, calls it expired
C34_SameExpiryAtLoad ==
    [][(/\ LoadStep
        /\ max_size' >= Len(disk.entries)
        /\ \A j \in 1..Len(disk.entries) : disk.entries[j].value # NoValue)
       => \A j \in 1..Len(disk.entries) :
             ~Has(cache', disk.entries[j].key)
                <=> is_expired(disk.entries[j], ttl_seconds')]_vars

\* a call of put is this step
PutStep == last'.op = "put" /\ nops' = nops + 1

\* no call but put touches the file at the path
OnlyPutWrites == ~PutStep => disk' = disk

\* the entries of the cache that have not expired, oldest use first
LiveEntries(c) == SelectSeq(c, LAMBDA e : now - e.created_at <= ttl_seconds)

\* a put leaves the file as it was, or truncated, or holding the
\* non-expired entries of the cache as the put left it
PutWritesLive ==
    PutStep =>
        \/ disk' \in {disk, Corrupt}
        \/ /\ disk'.kind = "snapshot"
           /\ disk'.saved_at = now
           /\ Len(disk'.entries) = Len(LiveEntries(cache'))
           /\ \A i \in 1..Len(disk'.entries) :
                 /\ disk'.entries[i].key = LiveEntries(cache')[i].key
                 /\ disk'.entries[i].created_at
                       = LiveEntries(cache')[i].created_at
                 /\ disk'.entries[i].tags = LiveEntries(cache')[i].tags

\* a construction with room for the whole file holds every saved entry
\* younger than ttl_seconds, whether or not the cache that wrote the file
\* still held the key
ReconstructedFromFile ==
    (/\ LoadStep
     /\ max_size' >= Len(disk.entries)
     /\ \A j \in 1..Len(disk.entries) : disk.entries[j].value # NoValue)
    => \A j \in 1..Len(disk.entries) :
          now - disk.entries[j].created_at < ttl_seconds'
             => /\ Has(cache', disk.entries[j].key)
                /\ Lookup(cache', disk.entries[j].key).created_at
                      = disk.entries[j].created_at

\* C35: with persistence enabled the snapshot file is rewritten only by put:
\* get (the removal of an expired entry included), invalidate,
\* invalidate_by_tags, clear and cleanup_expired leave it unchanged, so a
\* cache reconstructed from the path holds what the most recent put saved
C35_OnlyPutWrites ==
    [][OnlyPutWrites /\ PutWritesLive /\ ReconstructedFromFile]_vars

\* an invalidate removed a key that the snapshot of the last put still lists
C35_Witness ==
    /\ last.op = "invalidate"
    /\ ret = RetBool(TRUE)
    /\ disk.kind = "snapshot"
    /\ \E j \in 1..Len(disk.entries) : ~Has(cache, disk.entries[j].key)

\* the sum of size_bytes over the entries at positions 1..n of the cache
RECURSIVE SizeUpTo(_)
SizeUpTo(n) == IF n = 0 THEN 0 ELSE SizeUpTo(n - 1) + cache[n].size_bytes

\* C36: after every public operation of the cache (construction, get, put,
\* invalidate, invalidate_by_tags, clear, cleanup_expired) total_size_bytes
\* is the sum of size_bytes over exactly the entries now in the cache
C36_TotalSize == stats.total_size_bytes = SizeUpTo(Len(cache))

\* an invalidate removed one of two entries and the total is the size of
\* the one that stays
C36_Witness ==
    /\ last.op = "invalidate"
    /\ ret = RetBool(TRUE)
    /\ Len(cache) = 1
    /\ stats.total_size_bytes = cache[1].size_bytes
    /\ stats.total_size_bytes > 0


(***************************************************************************)
(* Claims about BatchProcessor, checked under SpecBatch                     *)
(***************************************************************************)
ResultsFor(id) == SelectSeq(results, LAMBDA r : r.item_id = id)

SubmittedIds == {submitted[i].id : i \in 1..Len(submitted)}

\* a run of process_batch on at least one item has returned
RunReturned == phase = "returned" /\ submitted # << >>

CancelledResult(id) ==
    BatchResult(id, FALSE, None, "Processing cancelled", 0, 0)

\* the only result of the single submitted item is the cancellation failure
\* and the scoring capability was not called
SingleItemCancelled ==
    /\ ResultsFor(submitted[1].id) = <<CancelledResult(submitted[1].id)>>
    /\ invoked[1] = 0

NoOtherFault ==
    /\ pending = {}
    /\ \A k \in 1..Len(results) : results[k].item_id # "unknown"

ScoredOk == {i \in Tasks : invoked[i] = 1 /\ pc[i] = "finished" /\ i \notin raisedIn}

\* C5: when the scoring capability raises for some items the batch still
\* returns success = true; each raising item has exactly one result, a
\* failure carrying the exception message; each item scored without an
\* exception has exactly one result, a success; and, in a run without
\* timeout or callback error, the summary counts the successes and the
\* failures accordingly
C5_PartialFailure ==
    RunReturned =>
        /\ result.success
        /\ \A i \in raisedIn :
              /\ Len(ResultsFor(sorted[i].id)) = 1
              /\ ~ResultsFor(sorted[i].id)[1].success
              /\ ResultsFor(sorted[i].id)[1].error = ExcMsg
        /\ \A i \in ScoredOk :
              /\ Len(ResultsFor(sorted[i].id)) = 1
              /\ ResultsFor(sorted[i].id)[1].success
        /\ NoOtherFault =>
              /\ result.summary.successful_items = Cardinality(ScoredOk)
              /\ result.summary.failed_items =
                    Len(submitted) - Cardinality(ScoredOk)
              /\ (\A i \in Tasks : invoked[i] = 1) =>
                    result.summary.failed_items = Cardinality(raisedIn)

\* a run in which one item raised and another was scored
C5_Witness ==
    /\ RunReturned
    /\ NoOtherFault
    /\ raisedIn # {}
    /\ ScoredOk # {}
    /\ \A i \in Tasks : invoked[i] = 1

IsTimeoutResult(r) == ~r.success /\ r.error = "Processing timeout"

C7_ItemIdCorrelation ==
    RunReturned =>
        /\ \A k \in 1..Len(results) : results[k].item_id \in SubmittedIds
        /\ \A id \in SubmittedIds : Len(ResultsFor(id)) = 1

Reported(snap) == snap.completed_items + snap.failed_items

\* C8: the snapshots the progress callback receives during a run have
\* non-decreasing completed_items + failed_items, and without a timeout the
\* last one has completed_items + failed_items = total_items
C8_ProgressMonotone ==
    /\ \A j \in 1..(Len(snapshots) - 1) :
          Reported(snapshots[j]) <= Reported(snapshots[j + 1])
    /\ (RunReturned /\ callback.given /\ pending = {}) =>
          /\ snapshots # << >>
          /\ Reported(snapshots[Len(snapshots)])
                = snapshots[Len(snapshots)].total_items
          /\ snapshots[Len(snapshots)].total_items = Len(submitted)

\* a run without timeout delivered several snapshots, a failure among them
C8_Witness ==
    /\ RunReturned
    /\ pending = {}
    /\ Len(snapshots) >= 2
    /\ snapshots[Len(snapshots)].failed_items >= 1

InFlight == {i \in Tasks : pc[i] = "scoring"}

\* C9: never more than parallel_workers items are inside per-item
\* processing; the semaphore counts the free slots and the other items wait
C9_ConcurrencyCap ==
    /\ Cardinality(InFlight) <= ParallelWorkers
    /\ phase = "wait" => sem = ParallelWorkers - Cardinality(InFlight)

\* every slot is taken and an item is waiting behind the cap
C9_Witness ==
    /\ Cardinality(InFlight) = ParallelWorkers
    /\ \E i \in Tasks : pc[i] = "blocked"

\* C10: process_batch with more than max_batch_size items raises before any
\* work starts: no task, no scoring call, no result, and the progress
\* tracker and the cancellation flag stay as they were
C10_OversizeRejected ==
    [][(phase = "idle" /\ Len(submitted') > MaxBatchSize)
          => /\ phase' = "raised"
             /\ UNCHANGED <<progress_tracker, cancellation_token>>
             /\ sorted' = << >>
             /\ invoked' = << >>
             /\ results' = << >>
             /\ result' = None]_vars

\* an oversized batch was rejected by a processor that had run a batch
\* before and whose cancellation flag was set
C10_Witness ==
    /\ phase = "raised"
    /\ Len(submitted) > MaxBatchSize
    /\ cancellation_token
    /\ progress_tracker # NoTracker


\* the items not yet begun when the run was cancelled have the cancellation
\* failure as their only result and were never scored
UnbegunCancelled ==
    \A i \in unbegunAtCancel :
        /\ ResultsFor(sorted[i].id) = <<CancelledResult(sorted[i].id)>>
        /\ invoked[i] = 0

OwnResults == {ScoreResult(sorted[i], raised) : i \in Tasks, raised \in BOOLEAN}

\* an item being scored while the flag is set, and not cut off by the
\* deadline, ends with the result of its own scoring call
StartedRunsToCompletion ==
    \A i \in Tasks :
        (/\ cancellation_token
         /\ pc[i] = "scoring"
         /\ pc'[i] \notin {"scoring", "cancelled"})
            => /\ pc'[i] = "finished"
               /\ taskResult'[i] \in {ScoreResult(sorted[i], TRUE),
                                       ScoreResult(sorted[i], FALSE)}

CallbackRaised == \E k \in 1..Len(results) : results[k] = CollectionError

\* C17: when the progress callback raises for some item the batch is not
\* aborted: process_batch returns success = true with the collected results,
\* among them the result of the item whose callback raised and the result
\* of every other finished item, each exactly once
C17_CallbackIsolated ==
    (RunReturned /\ CallbackRaised) =>
        /\ result.success
        /\ result.results = results
        /\ collected = done
        /\ \A i \in done : ResultsFor(sorted[i].id) = <<taskResult[i]>>
        /\ \A id \in callback.raisesOn : Len(ResultsFor(id)) = 1
        /\ pending = {} => \A id \in SubmittedIds : Len(ResultsFor(id)) = 1

\* the callback raised for the first collected item of two, and the second
\* item was collected after it
C17_Witness ==
    /\ RunReturned
    /\ Len(submitted) = 2
    /\ Len(results) = 3
    /\ results[1].item_id \in callback.raisesOn
    /\ results[2] = CollectionError
    /\ results[3].item_id \in SubmittedIds

\* the content is empty or made of whitespace only
Blank(content) == \A j \in 1..Len(content) : content[j] \in Whitespace

\* C20: an item whose content is empty or whitespace-only yields a failed
\* result with processing_time_ms = 0 and is never handed to the scoring
\* capability
C20_EmptyContentFails ==
    \A i \in Tasks :
        Blank(sorted[i].content) =>
            /\ invoked[i] = 0
            /\ pc[i] \notin {"scoring", "blocked"}
            /\ pc[i] = "finished" =>
                  /\ ~taskResult[i].success
                  /\ taskResult[i].processing_time_ms = 0
                  /\ taskResult[i].item_id = sorted[i].id
            /\ RunReturned =>
                  /\ ResultsFor(sorted[i].id) = <<taskResult[i]>>
                  /\ result.summary.successful_items = 0

\* a run on an item of a tab and a space returned the content failure
C20_Witness ==
    /\ RunReturned
    /\ submitted[1].content = <<9, 32>>
    /\ ~cancellation_token
    /\ ResultsFor(submitted[1].id) =
          <<BatchResult(submitted[1].id, FALSE, None,
                        "Empty or invalid content", 0, 0)>>

\* the scoring call of task i starts in this step, every other task of the
\* run having finished
LastScoringStarts(i) ==
    /\ phase = "wait"
    /\ phase' = "wait"
    /\ Len(sorted) >= 2
    /\ invoked'[i] = invoked[i] + 1
    /\ \A j \in Tasks \ {i} : pc[j] = "finished"

\* C28: progress is reported after each item completes and not once the
\* whole batch is done: in a run of two or more items on one worker, the
\* counters have been updated and the callback has been invoked for the
\* first finished item before the scoring call of the last item starts
C28_ProgressPerItem ==
    [][\A i \in Tasks :
          LastScoringStarts(i) =>
              /\ progress_tracker.completed_items
                    + progress_tracker.failed_items >= 1
              /\ callback.given => snapshots # << >>]_vars

\* C30: every run of process_batch that returns success = true returns as
\* many results as items were submitted, and summary.total_items is that
\* number, whatever successes, failures, cancellations, timeouts and
\* progress-callback errors occurred
C30_ResultCount ==
    (RunReturned /\ result.success) =>
        /\ Len(result.results) = Len(submitted)
        /\ result.summary.total_items = Len(submitted)

\* C38 as claimed: process_batch always terminates: with a finite timeout a
\* call that reached asyncio.wait returns its result once every item is
\* done or the deadline has passed, even if some items never finish or
\* never obtain a concurrency slot
C38_Terminates == (phase = "wait") ~> (phase = "returned")

\* task i has acquired its slot: it is in, or through, process_single_item
Begun(i) ==
    \/ pc[i] \in {"scoring", "finished"}
    \/ pc[i] = "cancelled" /\ invoked[i] > 0

\* the item with this id has begun
BegunId(id) == \E i \in Tasks : sorted[i].id = id /\ Begun(i)

\* no item has begun while an item of strictly higher priority has not
HigherPriorityFirst ==
    \A a, b \in 1..Len(submitted) :
        (/\ submitted[a].priority > submitted[b].priority
         /\ BegunId(submitted[b].id))
            => BegunId(submitted[a].id)

\* within a run an item that has begun stays begun, whatever the
\* priorities of the items that begin after it
NoPreemption ==
    (phase = "wait" /\ phase' \in {"wait", "collect"})
        => \A i \in Tasks : Begun(i) => Begun(i)'

\* C39: items are dispatched in descending priority: within one batch no
\* item begins processing before every item of strictly higher priority has
\* begun, and priority has no effect after dispatch (no reordering, no
\* preemption)
C39_PriorityDispatch == []HigherPriorityFirst /\ [][NoPreemption]_vars

\* the item submitted second, of higher priority, has begun and the item
\* submitted first has not
C39_Witness ==
    /\ phase = "wait"
    /\ Len(submitted) = 2
    /\ submitted[1].priority < submitted[2].priority
    /\ BegunId(submitted[2].id)
    /\ ~BegunId(submitted[1].id)

\* the sum of framework_count over the successful results at 1..n
RECURSIVE SuccessfulFrameworksUpTo(_)
SuccessfulFrameworksUpTo(n) ==
    IF n = 0 THEN 0
    ELSE SuccessfulFrameworksUpTo(n - 1)
         + (IF results[n].success THEN results[n].framework_count ELSE 0)

\* C40: for every list of results the summary has total_items equal to the
\* number of results, successful_items + failed_items = total_items,
\* total_frameworks_processed equal to the sum of framework_count over the
\* successful results only, and success_rate 0 when there are no results
C40_Summary ==
    phase = "summarised" =>
        /\ result.summary.total_items = Len(results)
        /\ result.summary.successful_items + result.summary.failed_items
              = result.summary.total_items
        /\ result.summary.successful_items
              = Cardinality({k \in 1..Len(results) : results[k].success})
        /\ result.summary.total_frameworks_processed
              = SuccessfulFrameworksUpTo(Len(results))
        /\ results = << >> => result.summary.success_rate = 0

\* a summary of one successful and one failed result that both carry a
\* framework_count counts the frameworks of the successful one
C40_Witness ==
    /\ phase = "summarised"
    /\ Len(results) = 2
    /\ results[1].success /\ results[1].framework_count = 2
    /\ ~results[2].success /\ results[2].framework_count = 1
    /\ result.summary.total_frameworks_processed = 2
    /\ result.summary.success_rate = 5000

(***************************************************************************)
(* Claims about BatchAnalysisManager, checked under SpecManager             *)
(***************************************************************************)
Ended(c) == call[c].st \in {"returned", "raised"}

\* the call got as far as self.active_batches[batch_id] = processor
Registered(c) ==
    call[c].st \in {"running", "returned"}
        \/ (call[c].st = "raised"
              /\ call[c].error # "ValueError: invalid content item type")

\* a call that registered its batch and ends in this step leaves its
\* batch_id outside the active set
EndsUnregistered ==
    \A c \in Calls :
        (~Ended(c) /\ Ended(c)' /\ Registered(c)')
            => call'[c].batch_id \notin get_active_batches'

\* C15: every submit_batch call that registered its batch has removed
\* batch_id from the active set when it returns or raises, whether the batch
\* succeeded, had failing items or was rejected as oversized; once no
\* submission is in flight, get_active_batches() is empty
C15_ActiveSetCleanup ==
    /\ [][EndsUnregistered]_vars
    /\ []((\A c \in Calls : call[c].st # "running")
            => get_active_batches = {})

\* one submission returned after a run with a failing item, another one was
\* rejected as oversized, and nothing is left in the active set
C15_Witness ==
    /\ \E c \in Calls :
          /\ call[c].st = "returned"
          /\ \E h \in 1..Len(batch_history) :
                /\ batch_history[h].batch_id = call[c].batch_id
                /\ batch_history[h].summary.failed_items >= 1
    /\ \E c \in Calls :
          /\ call[c].st = "raised"
          /\ call[c].n > MaxBatchSize
          /\ Registered(c)
    /\ get_active_batches = {}

Rejected(c) ==
    /\ call[c].st = "raised"
    /\ call[c].error = "ValueError: invalid content item type"

\* a submission with such an item ends at once with the input error, with
\* nothing scored, the active set and the history as they were
BadItemRejected ==
    \A c \in Calls :
        (call[c].st = "new" /\ call'[c].bad) =>
            /\ Rejected(c)'
            /\ call'[c].scored = 0
            /\ active_batches' = active_batches
            /\ batch_history' = batch_history

\* a call that has ended is not touched again
EndedCallsStay == \A c \in Calls : Ended(c) => call'[c] = call[c]

\* C21: submit_batch given a content item that is neither a string nor a
\* structured record raises the input error before any processing starts:
\* nothing of the submission is scored, valid items before the bad one
\* included, the batch is never in the active set, and the history gets no
\* record for it
C21_BadItemRejected ==
    /\ [][BadItemRejected /\ EndedCallsStay]_vars
    /\ [](\A c \in Calls : call[c].bad =>
              /\ Rejected(c)
              /\ call[c].scored = 0
              /\ \A id \in BatchIds : active_batches[id] # c)
    /\ [](Len(batch_history) =
              Cardinality({c \in Calls : Ended(c) /\ ~Rejected(c)
                                          /\ call[c].n <= MaxBatchSize}))

\* a submission of more than one item was rejected for a bad item while
\* another one with the same batch id is being processed
C21_Witness ==
    \E c, d \in Calls :
        /\ Rejected(c)
        /\ call[c].bad
        /\ call[c].n >= 2
        /\ call[d].st = "running"
        /\ call[d].batch_id = call[c].batch_id
        /\ batch_history = << >>

\* C29: when submissions overlap, two in-flight submit_batch calls with one
\* batch_id included, every submit_batch whose batch was processed returns
\* the result to its caller; submit_batch raises only for input or
\* validation errors
C29_OverlapReturns ==
    \A c \in Calls :
        call[c].st = "raised" =>
            call[c].error \in {"ValueError: invalid content item type",
                               "ValueError: batch size exceeds maximum"}

\* what one cancel_batch call does
CancelBatchContract ==
    \A id \in BatchIds :
        (mret'.op = "cancel_batch" /\ mret'.arg = id /\ CancelBatch(id)) =>
            /\ mret'.ok = (id \in get_active_batches)
            /\ UNCHANGED <<active_batches, batch_history>>
            /\ \A c \in Calls :
                  IF active_batches[id] = c
                  THEN /\ call'[c].flag
                       /\ [call'[c] EXCEPT !.flag = call[c].flag] = call[c]
                  ELSE call'[c] = call[c]

\* C22: cancel_batch(id) returns true exactly when id is in the active set
\* at the time of the call, and then sets the cancellation flag of the
\* processor registered for id; otherwise it returns false and changes
\* nothing
C22_CancelBatch == [][CancelBatchContract]_vars

\* two submissions with one batch id are in flight, cancel_batch returned
\* true and set the flag of the one registered last only
C22_Witness ==
    /\ mret.op = "cancel_batch"
    /\ mret.ok
    /\ call[1].st = "running" /\ ~call[1].flag
    /\ call[2].st = "running" /\ call[2].flag
    /\ call[1].batch_id = call[2].batch_id

\* the k most recently appended records, in append order
MostRecent(k) ==
    SubSeq(batch_history, Len(batch_history) - k + 1, Len(batch_history))

Smaller(a, b) == IF a < b THEN a ELSE b

\* C23: for a history of n records and every limit >= 0,
\* get_batch_history(limit) returns the min(limit, n) most recently
\* appended records in append order, newest last, and leaves the history
\* as it is
C23_HistoryLimit ==
    [][\A limit \in 0..MaxLimit :
          (mret'.op = "get_batch_history" /\ GetBatchHistory(limit)) =>
              /\ mret'.list = MostRecent(Smaller(limit, Len(batch_history)))
              /\ batch_history' = batch_history]_vars

\* the same for the limits above 0
C23_PositiveLimit ==
    [][\A limit \in 1..MaxLimit :
          (mret'.op = "get_batch_history" /\ GetBatchHistory(limit)) =>
              /\ mret'.list = MostRecent(Smaller(limit, Len(batch_history)))
              /\ batch_history' = batch_history]_vars

(***************************************************************************)
(* Claims about CacheManager, checked under SpecRegistry                    *)
(***************************************************************************)
\* the object get_cache(name) stands for
Resolves(name) == IF name = "default" THEN default_cache ELSE caches[name]

\* names that resolve to an object resolve to different objects
DistinctInstances ==
    \A n, m \in CacheNames :
        (n # m /\ Resolves(n) # 0 /\ Resolves(m) # 0)
            => Resolves(n) # Resolves(m)

GotCache(name) ==
    mret'.op = "get_cache" /\ mret'.arg = name /\ GetCache(name)

\* C24: get_cache() and get_cache("default") always return the same object
\* whatever get_cache and create_cache calls come in between; get_cache(n)
\* for an unseen name makes one cache and every later get_cache(n) returns
\* that object; different names resolve to different objects
C24_SameInstanceForever ==
    /\ [][\A name \in CacheNames :
             (GotCache(name) /\ got[name] # 0) => mret'.num = got[name]]_vars
    /\ []DistinctInstances

\* the same, where every later get_cache(n) returns that object until
\* create_cache(n) registers another one under n, which get_cache(n) then
\* returns
C24_SameInstanceUntilReplaced ==
    /\ [][\A name \in CacheNames :
             GotCache(name) =>
                /\ name = "default" => mret'.num = 1
                /\ (name = "default" /\ got[name] # 0)
                      => mret'.num = got[name]
                /\ handed[name] # 0 => mret'.num = handed[name]
                /\ handed[name] = 0 =>
                      (name # "default" =>
                          /\ mret'.num = Len(instances) + 1
                          /\ Len(instances') = Len(instances) + 1)]_vars
    /\ []DistinctInstances

\* get_cache("x") returned the object of a create_cache("x") that came
\* after the first get_cache("x"), and get_cache("default") is unmoved by
\* a create_cache("default")
C24_Witness ==
    /\ mret.op = "get_cache"
    /\ mret.arg = "x"
    /\ got["x"] # 0
    /\ mret.num # got["x"]
    /\ instances[mret.num].explicit
    /\ caches["default"] # 0
    /\ got["default"] = default_cache

\* the names a report has an entry for: "default" and the registered ones
ReportedNames == {"default"} \cup RegisteredNames

\* the object get_cache(n) returns for a reported name
Returned(n) == IF n = "default" THEN default_cache ELSE caches[n]

\* the mapping returned has entries for exactly the reported names, each
\* computed from the object get_cache returns for its name
DescribesReturned ==
    \A n \in CacheNames :
        /\ report'[n].instance # 0 <=> n \in ReportedNames
        /\ n \in ReportedNames => report'[n].instance = Returned(n)

\* C37 as claimed: after any get_cache and create_cache calls,
\* get_all_stats() and cleanup_all_expired() return exactly one entry for
\* "default" and one for each registered name, the entry under a name
\* describing the object get_cache returns for that name, and clear_all()
\* leaves every cache reachable through get_cache empty
C37_ReportsDescribeCaches ==
    [][/\ (mret'.op = "get_all_stats" /\ GetAllStats)
          => /\ DescribesReturned
             /\ \A n \in ReportedNames : report'[n].num = held[Returned(n)].n
       /\ (mret'.op = "cleanup_all_expired" /\ CleanupAllExpired)
          => /\ DescribesReturned
             /\ \A n \in ReportedNames : report'[n].num = held[Returned(n)].old
       /\ (mret'.op = "clear_all" /\ ClearAll)
          => \A n \in ReportedNames : held'[Returned(n)].n = 0]_vars

(***************************************************************************)
(* Claims about CacheEntry sizes and the hit statistics                     *)
(***************************************************************************)
\* the entries a put step removed for capacity: what was there, and the key
\* put, less what is there now
RemovedForCapacity ==
    Cardinality(KeysOf(cache) \cup {last'.key}) - Cardinality(KeysOf(cache'))

\* C31: the evictions counter rises by one per entry removed by the
\* capacity eviction of put and is changed by nothing else (get,
\* invalidate, invalidate_by_tags, clear, cleanup_expired); after a put that
\* overflowed the cache the number of entries is max_size
C31_EvictionCount ==
    [][IF PutStep
       THEN /\ stats'.evictions = stats.evictions + RemovedForCapacity
            /\ RemovedForCapacity > 0 => Len(cache') = max_size
            /\ Len(cache) + 1 > max_size /\ ~Has(cache, last'.key)
                  => RemovedForCapacity > 0
       ELSE stats'.evictions = stats.evictions]_vars

\* the third call was a put that evicted an entry, the cache is full and
\* the counter stands at one
C31_Witness ==
    /\ last.op = "put"
    /\ last.outcome = "evicted"
    /\ nops = 3
    /\ Len(cache) = max_size
    /\ stats.evictions = 1

\* a put stamps its entry with the time of the call
PutStampsNow ==
    PutStep => /\ Has(cache', last'.key)
               /\ Lookup(cache', last'.key).created_at = now

\* no other call, a get that hits included, moves the stamp of an entry it
\* keeps; a hit moves accessed_at and access_count
OnlyPutStamps ==
    ~PutStep =>
        \A k \in Keys :
            (Has(cache, k) /\ Has(cache', k)) =>
                /\ Lookup(cache', k).created_at = Lookup(cache, k).created_at
                /\ (last'.op = "get" /\ last'.key = k /\ nops' = nops + 1)
                      => /\ Lookup(cache', k).accessed_at = now
                         /\ Lookup(cache', k).access_count
                               = Lookup(cache, k).access_count + 1

\* a get made more than ttl_seconds after the stamp finds nothing, however
\* often the entry was read
LateGetMisses ==
    \A k \in Keys :
        (/\ last'.op = "get" /\ last'.key = k /\ nops' = nops + 1
         /\ Has(cache, k)
         /\ now > Lookup(cache, k).created_at + ttl_seconds)
        => ret' = RetNone /\ ~Has(cache', k)

\* C32: the expiry of an entry depends only on the time since the put that
\* created it: hits update accessed_at, access_count and recency and never
\* extend the lifetime, so an entry put at time t is absent to every get
\* made after t + ttl_seconds however often it was read in between
C32_HitsDoNotExtend == [][PutStampsNow /\ OnlyPutStamps /\ LateGetMisses]_vars

\* a get found the entry expired after two hits on it
C32_Witness ==
    /\ last.op = "get"
    /\ last.outcome = "expired"
    /\ stats.hits = 2
    /\ stats.misses = 1
    /\ cache = << >>

\* C25: every CacheEntry has size_bytes > 0 once constructed, whatever the
\* stored value, the empty string included
C25_PositiveSize == \A i \in 1..Len(cache) : cache[i].size_bytes > 0


\* a get that returns a value adds one hit, a get that returns None one
\* miss, and nothing else changes the two counters
CountsGets ==
    IF last'.op = "get" /\ nops' = nops + 1
    THEN IF ret'.kind = "value"
         THEN /\ stats'.hits = stats.hits + 1
              /\ stats'.misses = stats.misses
         ELSE /\ ret' = RetNone
              /\ stats'.hits = stats.hits
              /\ stats'.misses = stats.misses + 1
    ELSE /\ stats'.hits = stats.hits
         /\ stats'.misses = stats.misses

\* r hundredths is a nearest hundredth to 100 * h / t percent
NearestHundredth(r, h, t) ==
    /\ 2 * (r * t - 10000 * h) <= t
    /\ 2 * (10000 * h - r * t) <= t

\* what get_stats reports about the counters
ReportsRatio ==
    (last'.op = "get_stats" /\ GetStats) =>
        /\ ret'.val.items[1] = stats.hits
        /\ ret'.val.items[2] = stats.misses
        /\ IF stats.hits + stats.misses = 0
           THEN ret'.num = 0
           ELSE NearestHundredth(ret'.num, stats.hits,
                                 stats.hits + stats.misses)

\* C26: hits is the number of get calls that returned a value and misses
\* the number of get calls that returned nothing, and get_stats reports
\* hit_ratio = round(hits / (hits + misses) * 100, 2), or 0 when no get has
\* been made
C26_HitRatio ==
    /\ stats.hits = 0 /\ stats.misses = 0
    /\ [][CountsGets /\ ReportsRatio]_vars

\* get_stats after two hits and one miss reports 66.67
C26_Witness ==
    /\ last.op = "get_stats"
    /\ stats.hits = 2
    /\ stats.misses = 1
    /\ ret.num = 6667

(***************************************************************************)
(* Claims about process_batch calls in flight together, checked under       *)
(* SpecOverlap                                                              *)
(***************************************************************************)
\* C27: completed_items + failed_items <= total_items holds for the
\* progress tracker of a processor at all times, in any interleaving of
\* process_batch runs on that processor
C27_TrackerBounded ==
    progress_tracker # NoTracker =>
        progress_tracker.completed_items + progress_tracker.failed_items
            <= progress_tracker.total_items

====
